---------------------------- MODULE Spec2Model ----------------------------
(***************************************************************************)
(* Placement / relocation engine and its audit stores                      *)
(* (stockin/relocation.py, stockin/product_archive.py).                    *)
(*                                                                         *)
(* The inventory (items, virtual_units, shelves) is owned by the caller    *)
(* and mutated in place by relocate_item; the relocation history and the   *)
(* product archive are module-level singletons backed by one JSON file     *)
(* each.  Every handler is one action.                                     *)
(***************************************************************************)
EXTENDS Integers, Sequences, FiniteSets, TLC

VARIABLES
    items,                     \* item id -> Item (the caller's items dict)
    virtual_units,             \* vsu id -> VirtualStorageUnit
    shelves,                   \* the shelves dict, as its (key, value) pairs in mapping order
    relocation_history_state,  \* None or Some(RelocationHistory)
    next_relocation_id,        \* module global
    history_file,              \* data/relocation_history.json
    product_archive_state,     \* None or Some(ProductArchive)
    archive_file,              \* data/product_archive.json
    clock,                     \* what datetime.now() reads; it ticks once per relocation
    result,                    \* what the last call returned or raised
    process,                   \* which run of the program this is: 1, 2, ...
    issued,                    \* audit view: every <<relocation id, time, process>> a
                               \* record was ever stored under
    calls                      \* the relocate_item calls in progress: per caller, how
                               \* far the call has got and its local variables

vars == <<items, virtual_units, shelves, relocation_history_state,
          next_relocation_id, history_file, product_archive_state,
          archive_file, clock, result, process, issued, calls>>

inventory == <<items, virtual_units, shelves>>
historyVars == <<relocation_history_state, next_relocation_id, history_file>>
archiveVars == <<product_archive_state, archive_file>>

----------------------------------------------------------------------------
(* Bounds of the model *)

MaxItems == 2
MaxRelocations == 2
MaxProcesses == 2

(* Optional[T]: None is the empty tuple, a value v is <<v>>. *)
None == <<>>
Some(v) == <<v>>

Range(s) == {s[k] : k \in 1..Len(s)}
Count(s, x) == Cardinality({k \in 1..Len(s) : s[k] = x})

----------------------------------------------------------------------------
(* relocation.py: the fit test and the score *)

SameShelfBonus == 1000
SameRackBonus == 500

\* vsu.dimensions.volume when the attribute is there, else width*height*depth
VsuVolume(vsu) ==
    IF vsu.volume # None THEN vsu.volume[1]
    ELSE vsu.width * vsu.height * vsu.depth

ItemVolume(item) == item.width * item.height * item.depth

WastedSpace(item, vsu) == VsuVolume(vsu) - ItemVolume(item)

\* (mutant) a dimension equal to the slot's does not fit
ItemFitsStrictly(item, vsu) ==
    /\ item.width < vsu.width
    /\ item.height < vsu.height
    /\ item.depth < vsu.depth

_item_fits_vsu(item, vsu) ==
    /\ item.width <= vsu.width
    /\ item.height <= vsu.height
    /\ item.depth <= vsu.depth

\* (mutant) the rack is tested before the shelf, so a same-shelf slot gets the
\* rack bonus
LocationBonusRackFirst(is_same_shelf, is_same_rack) ==
    IF is_same_rack THEN 0 - SameRackBonus
    ELSE IF is_same_shelf THEN 0 - SameShelfBonus
    ELSE 0

LocationBonus(is_same_shelf, is_same_rack) ==
    IF is_same_shelf THEN 0 - SameShelfBonus
    ELSE IF is_same_rack THEN 0 - SameRackBonus
    ELSE 0

\* (mutant) the location bonus is left out of the score
ScoreWithoutBonus(item, vsu, is_same_shelf, is_same_rack) == WastedSpace(item, vsu)

_calculate_vsu_fit_score(item, vsu, is_same_shelf, is_same_rack) ==
    WastedSpace(item, vsu) + LocationBonus(is_same_shelf, is_same_rack)

----------------------------------------------------------------------------
(* relocation.py: the candidate search *)

\* shelves.get(shelf_id): None or Some(shelf)
ShelfGet(sh, shelf_id) ==
    IF \E k \in 1..Len(sh) : sh[k].id = shelf_id
    THEN Some(sh[CHOOSE k \in 1..Len(sh) : sh[k].id = shelf_id])
    ELSE None

CurrentRackId(sh, shelf_id) ==
    IF ShelfGet(sh, shelf_id) # None THEN Some(ShelfGet(sh, shelf_id)[1].rack_id)
    ELSE None

\* the candidates list, in the order the two nested loops append to it
CollectCandidates(item, shelf_id, vu, sh) ==
    LET cur_rack == CurrentRackId(sh, shelf_id)
        Entry(shelf, vsu_id) ==
            LET is_same_shelf == (shelf.id = shelf_id)
                is_same_rack == (Some(shelf.rack_id) = cur_rack)
            IN  [score |-> _calculate_vsu_fit_score(item, vu[vsu_id],
                                                    is_same_shelf, is_same_rack),
                 vsu_id |-> vsu_id,
                 loc |-> IF is_same_shelf THEN "same shelf"
                         ELSE IF is_same_rack THEN "same rack"
                         ELSE "other rack"]
        Passes(vsu_id) ==
            /\ vsu_id \in DOMAIN vu
            /\ vu[vsu_id].items = <<>>
            /\ _item_fits_vsu(item, vu[vsu_id])
        RECURSIVE ScanUnits(_, _)
        ScanUnits(shelf, k) ==
            IF k > Len(shelf.virtual_units) THEN <<>>
            ELSE (IF Passes(shelf.virtual_units[k])
                  THEN <<Entry(shelf, shelf.virtual_units[k])>>
                  ELSE <<>>) \o ScanUnits(shelf, k + 1)
        RECURSIVE ScanShelves(_)
        ScanShelves(n) ==
            IF n > Len(sh) THEN <<>>
            ELSE ScanUnits(sh[n], 1) \o ScanShelves(n + 1)
    IN  ScanShelves(1)

\* candidates.sort(key=score) is stable, so candidates[0] after the sort is the
\* first entry of the unsorted list that has the least score
BestIndexFirst(cands) ==
    CHOOSE k \in 1..Len(cands) :
        /\ \A j \in 1..Len(cands) : cands[k].score <= cands[j].score
        /\ \A j \in 1..(k - 1) : cands[j].score # cands[k].score

\* (mutant) an unstable choice: the last entry that has the least score
BestIndexLast(cands) ==
    CHOOSE k \in 1..Len(cands) :
        /\ \A j \in 1..Len(cands) : cands[k].score <= cands[j].score
        /\ \A j \in (k + 1)..Len(cands) : cands[j].score # cands[k].score

BestIndex(cands) == BestIndexFirst(cands)

\* (mutant) occupied slots are candidates too
FindAnyFittingVsu(item, shelf_id, vu, sh) ==
    LET cands == CollectCandidates(item, shelf_id,
                    [v \in DOMAIN vu |-> [vu[v] EXCEPT !.items = <<>>]], sh)
    IN  IF cands = <<>> THEN None ELSE Some(cands[BestIndex(cands)])

\* (mutant) the slot the item is in counts as empty
FindCountingOwnSlot(item, shelf_id, vu, sh) ==
    LET cands == CollectCandidates(item, shelf_id,
                    [v \in DOMAIN vu |->
                        IF item.vsu_id = Some(v) THEN [vu[v] EXCEPT !.items = <<>>]
                        ELSE vu[v]], sh)
    IN  IF cands = <<>> THEN None ELSE Some(cands[BestIndex(cands)])

\* None, or Some(candidate) for the (vsu_id, vsu_code, vsu) the function returns
find_empty_vsu_for_relocate(item, shelf_id, vu, sh) ==
    LET cands == CollectCandidates(item, shelf_id, vu, sh)
    IN  IF cands = <<>> THEN None ELSE Some(cands[BestIndex(cands)])

----------------------------------------------------------------------------
(* Values that cross the JSON boundary.  A datetime is [dt |-> t]; the text *)
(* json.dump writes for it (default=str) and the text isoformat() returns   *)
(* are strings, [str |-> t]; a dict key n is written as the string of n.    *)

Datetime(t) == [dt |-> t]
IsoFormat(d) == [str |-> d.dt]
StrOfDatetime(d) == [str |-> d.dt]
\* (mutant) the parsed instant is off by one tick
FromIsoFormatRounded(s) == [dt |-> s.str + 1]
FromIsoFormat(s) == [dt |-> s.str]
StrOfInt(n) == [str |-> n]
IntOfStr(s) == s.str

SaveOutcomes == {"ok", "open_error", "write_error"}

NoFile == [kind |-> "none"]
CorruptFile == [kind |-> "corrupt"]

MaxKey(S) == CHOOSE m \in S : \A k \in S : k <= m

----------------------------------------------------------------------------
(* relocation.py: the history aggregate *)

NewRelocationHistory ==
    [relocations |-> << >>,
     metadata |-> [total_relocations |-> 0, last_updated |-> None, version |-> "1.0"]]

\* (mutant) the metadata is written as it was
HistoryMetadataStale(history) == history

\* lines 114-115: the metadata is refreshed before anything is written
HistoryWithMetadata(history) ==
    [history EXCEPT
        !.metadata.total_relocations = Cardinality(DOMAIN history.relocations),
        !.metadata.last_updated = Some(IsoFormat(Datetime(clock)))]

\* lines 118-124: string keys, each record as a dict with its datetime as text
HistoryDocument(history) ==
    [kind |-> "json",
     relocations |->
        [key \in {StrOfInt(n) : n \in DOMAIN history.relocations} |->
            [history.relocations[IntOfStr(key)] EXCEPT
                !.relocated_at = StrOfDatetime(@)]],
     metadata |-> history.metadata]

\* (mutant) the document reaches the file whatever the write does
HistoryFileAlwaysWritten(history, file, outcome) ==
    HistoryDocument(HistoryWithMetadata(history))

\* the file after save_relocation_history: written in full, left alone when the
\* directory or the open fails, truncated when the write fails midway
HistoryFileAfterSave(history, file, outcome) ==
    CASE outcome = "ok" -> HistoryDocument(HistoryWithMetadata(history))
      [] outcome = "open_error" -> file
      [] OTHER -> CorruptFile

\* lines 81-85: int keys, each record with its datetime parsed back
ParsedRelocations(file) ==
    [n \in {IntOfStr(key) : key \in DOMAIN file.relocations} |->
        [file.relocations[StrOfInt(n)] EXCEPT !.relocated_at = FromIsoFormat(@)]]

\* (mutant) the next id is not rebuilt from the keys that were read
LoadKeepsNextId(file, next_id, outcome) ==
    IF file.kind = "json"
    THEN [state |-> [relocations |-> ParsedRelocations(file), metadata |-> file.metadata],
          next_id |-> next_id,
          file |-> file,
          raised |-> FALSE]
    ELSE [state |-> HistoryWithMetadata(NewRelocationHistory),
          next_id |-> next_id,
          file |-> HistoryFileAfterSave(NewRelocationHistory, file, outcome),
          raised |-> outcome # "ok"]

\* (mutant) an unreadable file is left as it is
LoadHistoryWithoutWrite(file, next_id, outcome) ==
    IF file.kind = "json"
    THEN [state |-> [relocations |-> ParsedRelocations(file), metadata |-> file.metadata],
          next_id |-> IF DOMAIN ParsedRelocations(file) # {}
                      THEN MaxKey(DOMAIN ParsedRelocations(file)) + 1
                      ELSE next_id,
          file |-> file,
          raised |-> FALSE]
    ELSE [state |-> HistoryWithMetadata(NewRelocationHistory),
          next_id |-> next_id,
          file |-> file,
          raised |-> FALSE]

\* (mutant) the next id is the greatest key that was read, not one more
LoadNextIdIsMaxKey(file, next_id, outcome) ==
    IF file.kind = "json"
    THEN [state |-> [relocations |-> ParsedRelocations(file), metadata |-> file.metadata],
          next_id |-> IF DOMAIN ParsedRelocations(file) # {}
                      THEN MaxKey(DOMAIN ParsedRelocations(file))
                      ELSE next_id,
          file |-> file,
          raised |-> FALSE]
    ELSE [state |-> HistoryWithMetadata(NewRelocationHistory),
          next_id |-> next_id,
          file |-> HistoryFileAfterSave(NewRelocationHistory, file, outcome),
          raised |-> outcome # "ok"]

\* load_relocation_history: [state, next_id, file, raised]
load_relocation_history(file, next_id, outcome) ==
    IF file.kind = "json"
    THEN LET relocations_dict == ParsedRelocations(file)
         IN  [state |-> [relocations |-> relocations_dict, metadata |-> file.metadata],
              next_id |-> IF DOMAIN relocations_dict # {}
                          THEN MaxKey(DOMAIN relocations_dict) + 1
                          ELSE next_id,
              file |-> file,
              raised |-> FALSE]
    ELSE \* no file (lines 70-74) or an unreadable one (lines 103-107)
         [state |-> HistoryWithMetadata(NewRelocationHistory),
          next_id |-> next_id,
          file |-> HistoryFileAfterSave(NewRelocationHistory, file, outcome),
          raised |-> outcome # "ok"]

----------------------------------------------------------------------------
(* relocation.py: relocate_item *)

\* list.remove(x): the first occurrence goes
RemoveFirst(s, x) ==
    LET k == CHOOSE j \in 1..Len(s) : s[j] = x /\ \A m \in 1..(j - 1) : s[m] # x
    IN  [j \in 1..(Len(s) - 1) |-> IF j < k THEN s[j] ELSE s[j + 1]]

\* (mutant) the item id is left in the origin's list
OriginKeepsItem(vsu, item_id) == vsu

\* (mutant) the origin's list is cleared instead of losing one entry
OriginCleared(vsu, item_id) == [vsu EXCEPT !.items = <<>>, !.occupied = FALSE]

\* (mutant) the occupied flag is not cleared when the list becomes empty
OriginKeepsFlag(vsu, item_id) ==
    [vsu EXCEPT !.items = IF item_id \in Range(@) THEN RemoveFirst(@, item_id) ELSE @]

\* lines 326-330
OriginAfterRemove(vsu, item_id) ==
    LET left == IF item_id \in Range(vsu.items)
                THEN RemoveFirst(vsu.items, item_id)
                ELSE vsu.items
    IN  [vsu EXCEPT !.items = left,
                    !.occupied = IF left = <<>> THEN FALSE ELSE @]

\* (mutant) the item id is appended twice
DestinationAppendsTwice(vsu, item_id) ==
    [vsu EXCEPT !.items = Append(Append(@, item_id), item_id), !.occupied = TRUE]

\* (mutant) the destination gets narrower as it takes the item
DestinationNarrowed(vsu, item_id) ==
    [vsu EXCEPT !.items = Append(@, item_id), !.occupied = TRUE, !.width = @ - 1]

\* lines 332-336
DestinationAfterAppend(vsu, item_id) ==
    [vsu EXCEPT !.items = Append(@, item_id), !.occupied = TRUE]

Coordinates(vsu) == [x |-> vsu.position.x, y |-> vsu.position.y, z |-> vsu.position.z]

\* (mutant) the index is the length, not the last position
StockIndexOffByOne(new_vsu) == Len(new_vsu.items)

\* the index the item gets: len(new_vsu.items) - 1 after the append (line 339)
StockIndexAfterAppend(new_vsu) == Len(new_vsu.items) - 1

\* (mutant) the record names the destination as the origin and the origin as
\* the destination
RelocationRecordSwapped(item_id, item, original_vsu, new_vsu, reason) ==
    [item_id |-> item_id,
     product_id |-> item.product_id,
     barcode |-> item.barcode,
     original_vsu_id |-> new_vsu.id,
     original_vsu_code |-> new_vsu.code,
     new_vsu_id |-> original_vsu.id,
     new_vsu_code |-> original_vsu.code,
     original_coordinates |-> Coordinates(new_vsu),
     new_coordinates |-> Coordinates(original_vsu),
     relocated_at |-> Datetime(clock),
     reason |-> reason]

\* lines 348-368
RelocationRecord(item_id, item, original_vsu, new_vsu, reason) ==
    [item_id |-> item_id,
     product_id |-> item.product_id,
     barcode |-> item.barcode,
     original_vsu_id |-> original_vsu.id,
     original_vsu_code |-> original_vsu.code,
     new_vsu_id |-> new_vsu.id,
     new_vsu_code |-> new_vsu.code,
     original_coordinates |-> Coordinates(original_vsu),
     new_coordinates |-> Coordinates(new_vsu),
     relocated_at |-> Datetime(clock),
     reason |-> reason]

\* "if relocation_history_state is None: ... = load_relocation_history()": the
\* history a call works on, loaded now when the process has not loaded it yet
HistoryOnFirstUse(load_outcome) ==
    IF relocation_history_state = None
    THEN load_relocation_history(history_file, next_relocation_id, load_outcome)
    ELSE [state |-> relocation_history_state[1],
          next_id |-> next_relocation_id,
          file |-> history_file,
          raised |-> FALSE]

\* how a call ends: it returns, or raises an HTTPException with a status code, or
\* lets the OSError of a failed write through
\* (mutant) every HTTPException carries the not-found status
HttpErrorNotFound(op, status) == [op |-> op, outcome |-> "HTTPException", status |-> 404]

HttpError(op, status) == [op |-> op, outcome |-> "HTTPException", status |-> status]
WriteError(op) == [op |-> op, outcome |-> "OSError"]

\* relocate_item(item_id, items, virtual_units, shelves, reason); load_outcome and
\* save_outcome are what the file system does to the write of a first load and to
\* the final save.  (\E x \in {e} binds x to the value of e.)
relocate_item(item_id, reason, load_outcome, save_outcome) ==
    \E loaded \in {HistoryOnFirstUse(load_outcome)} :
    LET Fail(raised) ==
            /\ result' = raised
            /\ relocation_history_state' = Some(loaded.state)
            /\ next_relocation_id' = loaded.next_id
            /\ history_file' = loaded.file
            /\ UNCHANGED <<inventory, archiveVars, clock, process, issued, calls>>
    IN
    IF loaded.raised THEN Fail(WriteError("relocate"))
    ELSE IF item_id \notin DOMAIN items THEN Fail(HttpError("relocate", 404))
    ELSE IF items[item_id].vsu_id = None THEN Fail(HttpError("relocate", 400))
    ELSE
      LET item == items[item_id]
          original_vsu_id == item.vsu_id[1]
          original_vsu == virtual_units[original_vsu_id]
          shelf_id == original_vsu.shelf_id
      IN
      \E found \in {find_empty_vsu_for_relocate(item, shelf_id, virtual_units, shelves)} :
      IF found = None THEN Fail(HttpError("relocate", 503))
      ELSE
        LET new_vsu_id == found[1].vsu_id
            vu1 == [virtual_units EXCEPT
                        ![original_vsu_id] = OriginAfterRemove(@, item_id)]
        IN
        \E vu2 \in {[vu1 EXCEPT ![new_vsu_id] = DestinationAfterAppend(@, item_id)]} :
        \E record \in {RelocationRecord(item_id, item, vu2[original_vsu_id],
                                        vu2[new_vsu_id], reason)} :
        \E history \in {[loaded.state EXCEPT
                            !.relocations = (loaded.next_id :> record) @@ @]} :
        LET stock_index == StockIndexAfterAppend(vu2[new_vsu_id])
        IN
        /\ loaded.next_id <= MaxRelocations
        /\ virtual_units' = vu2
        /\ items' = [items EXCEPT ![item_id].vsu_id = Some(new_vsu_id),
                                  ![item_id].stock_index = stock_index]
        /\ relocation_history_state' = Some(HistoryWithMetadata(history))
        /\ next_relocation_id' = loaded.next_id + 1
        /\ history_file' = HistoryFileAfterSave(history, loaded.file, save_outcome)
        /\ clock' = clock + 1
        /\ issued' = issued \cup {<<loaded.next_id, clock, process>>}
        /\ result' = IF save_outcome # "ok" THEN WriteError("relocate")
                     ELSE [op |-> "relocate",
                           outcome |-> "returned",
                           item_id |-> item_id,
                           original_vsu_id |-> original_vsu_id,
                           original_vsu_code |-> original_vsu.code,
                           new_vsu_id |-> new_vsu_id,
                           new_vsu_code |-> vu2[new_vsu_id].code,
                           new_coordinates |-> Coordinates(vu2[new_vsu_id]),
                           stock_index |-> stock_index,
                           relocated_at |-> IsoFormat(record.relocated_at),
                           reason |-> reason]
        /\ UNCHANGED <<shelves, archiveVars, process, calls>>

----------------------------------------------------------------------------
(* relocation.py: relocate_item run by two callers at once.  Nothing in the *)
(* module takes a lock, so a call can be overtaken by another between any   *)
(* two of its statements; the call is cut here into six consecutive blocks  *)
(* of statements, each run without interruption.                            *)

Callers == {"a", "b"}

\* a caller's frame: where the call is, and its local variables
IdleCall ==
    [pc |-> "idle", item_id |-> 0, original_vsu_id |-> 0, new_vsu_id |-> 0,
     stock_index |-> 0, reason |-> "", relocation_id |-> 0, outcome |-> "none"]

NoCalls == [c \in Callers |-> IdleCall]

\* lines 290-324: first use of the history, the checks and the candidate search
RaceSearch(c, item_id, reason) ==
    /\ calls[c].pc = "idle"
    /\ \E loaded \in {HistoryOnFirstUse("ok")} :
        LET Fail(raised) ==
                /\ result' = raised
                /\ calls' = [calls EXCEPT ![c].pc = "done", ![c].item_id = item_id,
                                          ![c].outcome = raised.outcome]
            Loaded ==
                /\ relocation_history_state' = Some(loaded.state)
                /\ next_relocation_id' = loaded.next_id
                /\ history_file' = loaded.file
        IN
        /\ Loaded
        /\ IF item_id \notin DOMAIN items THEN Fail(HttpError("relocate", 404))
           ELSE IF items[item_id].vsu_id = None THEN Fail(HttpError("relocate", 400))
           ELSE
             LET item == items[item_id]
                 original_vsu_id == item.vsu_id[1]
                 shelf_id == virtual_units[original_vsu_id].shelf_id
             IN
             \E found \in {find_empty_vsu_for_relocate(item, shelf_id, virtual_units,
                                                       shelves)} :
             IF found = None THEN Fail(HttpError("relocate", 503))
             ELSE /\ calls' = [calls EXCEPT
                                  ![c] = [IdleCall EXCEPT
                                             !.pc = "found",
                                             !.item_id = item_id,
                                             !.original_vsu_id = original_vsu_id,
                                             !.new_vsu_id = found[1].vsu_id,
                                             !.reason = reason]]
                  /\ result' = result
    /\ UNCHANGED <<inventory, archiveVars, clock, process, issued>>

\* (mutant) the destination's list is replaced by the item alone
RacePlaceAlone(c) ==
    /\ calls[c].pc = "found"
    /\ virtual_units' =
          [virtual_units EXCEPT
              ![calls[c].original_vsu_id] = OriginAfterRemove(@, calls[c].item_id),
              ![calls[c].new_vsu_id] = [@ EXCEPT !.items = <<calls[c].item_id>>,
                                                 !.occupied = TRUE]]
    /\ calls' = [calls EXCEPT ![c].pc = "placed"]
    /\ UNCHANGED <<items, shelves, historyVars, archiveVars, clock, result, process,
                   issued>>

\* lines 326-336: the item id leaves the origin's list and joins the
\* destination's; the destination is the slot the search returned, and is not
\* looked at again
RacePlace(c) ==
    /\ calls[c].pc = "found"
    /\ \E vu1 \in {[virtual_units EXCEPT
                       ![calls[c].original_vsu_id] =
                            OriginAfterRemove(@, calls[c].item_id)]} :
          virtual_units' = [vu1 EXCEPT
                               ![calls[c].new_vsu_id] =
                                    DestinationAfterAppend(@, calls[c].item_id)]
    /\ calls' = [calls EXCEPT ![c].pc = "placed"]
    /\ UNCHANGED <<items, shelves, historyVars, archiveVars, clock, result, process,
                   issued>>

\* lines 339-343: the stock index is read off the destination's list as it is
\* now, and written to the item with the destination's id
RaceIndex(c) ==
    /\ calls[c].pc = "placed"
    /\ LET stock_index == StockIndexAfterAppend(virtual_units[calls[c].new_vsu_id])
       IN  /\ items' = [items EXCEPT
                           ![calls[c].item_id].vsu_id = Some(calls[c].new_vsu_id),
                           ![calls[c].item_id].stock_index = stock_index]
           /\ calls' = [calls EXCEPT ![c].pc = "indexed",
                                     ![c].stock_index = stock_index]
    /\ UNCHANGED <<virtual_units, shelves, historyVars, archiveVars, clock, result,
                   process, issued>>

\* (mutant) a record already stored under the id is kept
RaceStoreKeepingEarlier(c) ==
    /\ calls[c].pc = "indexed"
    /\ LET record == RelocationRecord(calls[c].item_id, items[calls[c].item_id],
                                      virtual_units[calls[c].original_vsu_id],
                                      virtual_units[calls[c].new_vsu_id],
                                      calls[c].reason)
       IN  relocation_history_state' =
              Some([relocation_history_state[1] EXCEPT
                       !.relocations = @ @@ (next_relocation_id :> record)])
    /\ calls' = [calls EXCEPT ![c].pc = "stored",
                              ![c].relocation_id = next_relocation_id]
    /\ clock' = clock + 1
    /\ issued' = issued \cup {<<next_relocation_id, clock, process>>}
    /\ UNCHANGED <<inventory, next_relocation_id, history_file, archiveVars, result,
                   process>>

\* lines 348-370: the record is built and stored under the id that
\* next_relocation_id holds at this moment
RaceStore(c) ==
    /\ calls[c].pc = "indexed"
    /\ LET record == RelocationRecord(calls[c].item_id, items[calls[c].item_id],
                                      virtual_units[calls[c].original_vsu_id],
                                      virtual_units[calls[c].new_vsu_id],
                                      calls[c].reason)
       IN  relocation_history_state' =
              Some([relocation_history_state[1] EXCEPT
                       !.relocations = (next_relocation_id :> record) @@ @])
    /\ calls' = [calls EXCEPT ![c].pc = "stored",
                              ![c].relocation_id = next_relocation_id]
    /\ clock' = clock + 1
    /\ issued' = issued \cup {<<next_relocation_id, clock, process>>}
    /\ UNCHANGED <<inventory, next_relocation_id, history_file, archiveVars, result,
                   process>>

\* line 371: next_relocation_id += 1
RaceIncrement(c) ==
    /\ calls[c].pc = "stored"
    /\ next_relocation_id' = next_relocation_id + 1
    /\ calls' = [calls EXCEPT ![c].pc = "counted"]
    /\ UNCHANGED <<inventory, relocation_history_state, history_file, archiveVars,
                   clock, result, process, issued>>

\* lines 374-392: the history is saved as it is now, and the call returns
RaceSave(c) ==
    /\ calls[c].pc = "counted"
    /\ relocation_history_state' = Some(HistoryWithMetadata(relocation_history_state[1]))
    /\ history_file' = HistoryFileAfterSave(relocation_history_state[1], history_file,
                                            "ok")
    /\ calls' = [calls EXCEPT ![c].pc = "done", ![c].outcome = "returned"]
    /\ result' = [op |-> "relocate",
                  outcome |-> "returned",
                  item_id |-> calls[c].item_id,
                  original_vsu_id |-> calls[c].original_vsu_id,
                  new_vsu_id |-> calls[c].new_vsu_id,
                  stock_index |-> calls[c].stock_index,
                  reason |-> calls[c].reason]
    /\ UNCHANGED <<inventory, next_relocation_id, archiveVars, clock, process, issued>>

----------------------------------------------------------------------------
(* product_archive.py: the archive aggregate *)

NewProductArchive ==
    [items |-> << >>,
     metadata |-> [total_items |-> 0, last_updated |-> None, version |-> "1.0"]]

\* lines 113-114
ArchiveWithMetadata(archive) ==
    [archive EXCEPT
        !.metadata.total_items = Cardinality(DOMAIN archive.items),
        !.metadata.last_updated = Some(IsoFormat(Datetime(clock)))]

\* lines 117-123
ArchiveDocument(archive) ==
    [kind |-> "json",
     items |->
        [key \in {StrOfInt(n) : n \in DOMAIN archive.items} |->
            [archive.items[IntOfStr(key)] EXCEPT !.dispensed_at = StrOfDatetime(@)]],
     metadata |-> archive.metadata]

\* (mutant) the save leaves the archive file as it found it
ArchiveFileLeftAlone(archive, file, outcome) == file

\* the file after save_product_archive (lines 109-136)
ArchiveFileAfterSave(archive, file, outcome) ==
    CASE outcome = "ok" -> ArchiveDocument(ArchiveWithMetadata(archive))
      [] outcome = "open_error" -> file
      [] OTHER -> CorruptFile

\* lines 84-87: ArchivedItem(**item_data) parses the datetime text back
ParsedArchiveItems(file) ==
    [n \in {IntOfStr(key) : key \in DOMAIN file.items} |->
        [file.items[StrOfInt(n)] EXCEPT !.dispensed_at = FromIsoFormat(@)]]

\* (mutant) a missing or unreadable file is left as it is
LoadArchiveWithoutWrite(file, outcome) ==
    IF file.kind = "json"
    THEN [state |-> [items |-> ParsedArchiveItems(file), metadata |-> file.metadata],
          file |-> file,
          raised |-> FALSE]
    ELSE [state |-> ArchiveWithMetadata(NewProductArchive),
          file |-> file,
          raised |-> FALSE]

\* load_product_archive: [state, file, raised]
load_product_archive(file, outcome) ==
    IF file.kind = "json"
    THEN [state |-> [items |-> ParsedArchiveItems(file), metadata |-> file.metadata],
          file |-> file,
          raised |-> FALSE]
    ELSE [state |-> ArchiveWithMetadata(NewProductArchive),
          file |-> ArchiveFileAfterSave(NewProductArchive, file, outcome),
          raised |-> outcome # "ok"]

\* "if product_archive_state is None: ... = load_product_archive()"
ArchiveOnFirstUse(load_outcome) ==
    IF product_archive_state = None
    THEN load_product_archive(archive_file, load_outcome)
    ELSE [state |-> product_archive_state[1],
          file |-> archive_file,
          raised |-> FALSE]

\* lines 169-193
ArchivedItem(item_id, item, vsu, shelf_id, shelf_name, task_id) ==
    [item_id |-> item_id,
     product_id |-> item.product_id,
     barcode |-> item.barcode,
     dimensions |-> [width |-> item.width, height |-> item.height, depth |-> item.depth],
     vsu_id |-> vsu.id,
     vsu_code |-> vsu.code,
     shelf_id |-> shelf_id,
     shelf_name |-> shelf_name,
     coordinates |-> Coordinates(vsu),
     stock_index |-> item.stock_index,
     dispensed_at |-> Datetime(clock),
     task_id |-> task_id]

\* (mutant) an entry already archived under the item id is kept
ArchiveKeepingEarlierEntry(item_id, item, vsu, shelf_id, shelf_name, task_id, load_outcome, save_outcome) ==
    LET loaded == ArchiveOnFirstUse(load_outcome)
        archived_item == ArchivedItem(item_id, item, vsu, shelf_id, shelf_name, task_id)
        archive == [loaded.state EXCEPT !.items = @ @@ (item_id :> archived_item)]
    IN
    IF loaded.raised
    THEN /\ product_archive_state' = Some(loaded.state)
         /\ archive_file' = loaded.file
         /\ result' = WriteError("archive")
    ELSE /\ product_archive_state' = Some(ArchiveWithMetadata(archive))
         /\ archive_file' = ArchiveFileAfterSave(archive, loaded.file, save_outcome)
         /\ result' = IF save_outcome # "ok" THEN WriteError("archive")
                      ELSE [op |-> "archive", outcome |-> "returned",
                            item_id |-> item_id]

\* archive_dispensed_item(item_id, item, vsu, shelf_id, shelf_name, task_id): the
\* part of the call that touches the archive, the file, the clock and the result
archive_dispensed_item(item_id, item, vsu, shelf_id, shelf_name, task_id, load_outcome, save_outcome) ==
    LET loaded == ArchiveOnFirstUse(load_outcome)
        archived_item == ArchivedItem(item_id, item, vsu, shelf_id, shelf_name, task_id)
        archive == [loaded.state EXCEPT !.items = (item_id :> archived_item) @@ @]
    IN
    IF loaded.raised
    THEN /\ product_archive_state' = Some(loaded.state)
         /\ archive_file' = loaded.file
         /\ result' = WriteError("archive")
    ELSE /\ product_archive_state' = Some(ArchiveWithMetadata(archive))
         /\ archive_file' = ArchiveFileAfterSave(archive, loaded.file, save_outcome)
         /\ result' = IF save_outcome # "ok" THEN WriteError("archive")
                      ELSE [op |-> "archive", outcome |-> "returned",
                            item_id |-> item_id]

\* (mutant) the call also takes the item out of the inventory and of its slot
ArchiveCallTakingItemOut(item_id, task_id, load_outcome, save_outcome) ==
    /\ item_id \in DOMAIN items
    /\ items[item_id].vsu_id # None
    /\ LET item == items[item_id]
           vsu == virtual_units[item.vsu_id[1]]
           shelf == (CHOOSE k \in 1..Len(shelves) : shelves[k].id = vsu.shelf_id)
       IN  /\ archive_dispensed_item(item_id, item, vsu, shelves[shelf].id,
                                     shelves[shelf].name, task_id, load_outcome,
                                     save_outcome)
           /\ items' = [i \in DOMAIN items \ {item_id} |-> items[i]]
           /\ virtual_units' = [virtual_units EXCEPT
                                    ![vsu.id] = OriginAfterRemove(@, item_id)]
    /\ UNCHANGED <<shelves, historyVars, clock, process, issued, calls>>

\* the call on its own, for an item the inventory holds in a slot: the inventory
\* and the history are not touched
ArchiveCall(item_id, task_id, load_outcome, save_outcome) ==
    /\ item_id \in DOMAIN items
    /\ items[item_id].vsu_id # None
    /\ LET item == items[item_id]
           vsu == virtual_units[item.vsu_id[1]]
           shelf == (CHOOSE k \in 1..Len(shelves) : shelves[k].id = vsu.shelf_id)
       IN  archive_dispensed_item(item_id, item, vsu, shelves[shelf].id,
                                  shelves[shelf].name, task_id, load_outcome,
                                  save_outcome)
    /\ UNCHANGED <<inventory, historyVars, clock, process, issued, calls>>

----------------------------------------------------------------------------
(* The caller of the archive: a dispense takes the item out of the live    *)
(* inventory and then archives it.                                         *)

\* the caller's removal: the item leaves the items mapping and its slot
InventoryWithoutItem(item_id) ==
    LET vsu_id == items[item_id].vsu_id[1]
    IN  [items |-> [i \in DOMAIN items \ {item_id} |-> items[i]],
         virtual_units |-> [virtual_units EXCEPT
                                ![vsu_id] = OriginAfterRemove(@, item_id)]]

Dispense(item_id, task_id, load_outcome, save_outcome) ==
    /\ item_id \in DOMAIN items
    /\ items[item_id].vsu_id # None
    /\ LET item == items[item_id]
           vsu == virtual_units[item.vsu_id[1]]
           shelf == ShelfGet(shelves, vsu.shelf_id)[1]
       IN  /\ items' = InventoryWithoutItem(item_id).items
           /\ virtual_units' = InventoryWithoutItem(item_id).virtual_units
           /\ archive_dispensed_item(item_id, item, vsu, shelf.id, shelf.name,
                                     task_id, load_outcome, save_outcome)
           /\ clock' = clock
           /\ UNCHANGED <<shelves, historyVars, process, issued, calls>>

----------------------------------------------------------------------------
(* The candidate search called on its own *)

FindOnly(item_id) ==
    /\ item_id \in DOMAIN items
    /\ items[item_id].vsu_id # None
    /\ LET shelf_id == virtual_units[items[item_id].vsu_id[1]].shelf_id
       IN  result' = [op |-> "find",
                      outcome |-> "returned",
                      item_id |-> item_id,
                      shelf_id |-> shelf_id,
                      found |-> find_empty_vsu_for_relocate(items[item_id], shelf_id,
                                                            virtual_units, shelves)]
    /\ UNCHANGED <<inventory, historyVars, archiveVars, clock, process, issued, calls>>

----------------------------------------------------------------------------
(* The queries, and the start of a new process *)

\* (mutant) the keys with the earliest relocated_at first
RECURSIVE EarliestFirst(_, _)
EarliestFirst(relocations, keys) ==
    IF keys = {} THEN <<>>
    ELSE LET k == CHOOSE n \in keys :
                    \A m \in keys :
                        \/ relocations[n].relocated_at.dt < relocations[m].relocated_at.dt
                        \/ /\ relocations[m].relocated_at.dt = relocations[n].relocated_at.dt
                           /\ n <= m
         IN  <<k>> \o EarliestFirst(relocations, keys \ {k})

\* the keys of a record mapping, latest relocated_at first; sorted(...,
\* reverse=True) is stable, so records of one instant keep the mapping's order,
\* which is the order the ids were handed out in
RECURSIVE LatestFirst(_, _)
LatestFirst(relocations, keys) ==
    IF keys = {} THEN <<>>
    ELSE LET k == CHOOSE n \in keys :
                    \A m \in keys :
                        \/ relocations[m].relocated_at.dt < relocations[n].relocated_at.dt
                        \/ /\ relocations[m].relocated_at.dt = relocations[n].relocated_at.dt
                           /\ n <= m
         IN  <<k>> \o LatestFirst(relocations, keys \ {k})

\* lines 402-419: one dict per record, relocated_at as isoformat text
HistoryListing(relocations) ==
    LET order == LatestFirst(relocations, DOMAIN relocations)
    IN  [k \in 1..Len(order) |->
            [relocations[order[k]] EXCEPT !.relocated_at = IsoFormat(@)]
                @@ [relocation_id |-> order[k]]]

\* a query leaves everything alone but the history it may have to load
HistoryQueried(loaded, returned) ==
    /\ relocation_history_state' = Some(loaded.state)
    /\ next_relocation_id' = loaded.next_id
    /\ history_file' = loaded.file
    /\ result' = IF loaded.raised THEN WriteError(returned.op) ELSE returned
    /\ UNCHANGED <<inventory, archiveVars, clock, process, issued, calls>>

get_relocation_history(load_outcome) ==
    \E loaded \in {HistoryOnFirstUse(load_outcome)} :
        HistoryQueried(loaded,
            [op |-> "get_relocation_history", outcome |-> "returned",
             records |-> HistoryListing(loaded.state.relocations)])

get_relocation_stats(load_outcome) ==
    \E loaded \in {HistoryOnFirstUse(load_outcome)} :
        HistoryQueried(loaded,
            [op |-> "get_relocation_stats", outcome |-> "returned",
             total_relocations |-> Cardinality(DOMAIN loaded.state.relocations),
             last_updated |-> loaded.state.metadata.last_updated])

\* (mutant) a product's count stays at one however many entries it has
ProductCountsOnce(archived) ==
    [p \in {archived[i].product_id : i \in DOMAIN archived} |->
        LET entries == {i \in DOMAIN archived : archived[i].product_id = p}
        IN  [product_id |-> p,
             barcodes |-> {archived[i].barcode : i \in entries},
             count |-> 1]]

\* lines 213-223: one row per product id, counting its entries; the barcode is
\* that of the first entry met
ProductCounts(archived) ==
    [p \in {archived[i].product_id : i \in DOMAIN archived} |->
        LET entries == {i \in DOMAIN archived : archived[i].product_id = p}
        IN  [product_id |-> p,
             barcodes |-> {archived[i].barcode : i \in entries},
             count |-> Cardinality(entries)]]

get_archive_stats(load_outcome) ==
    \E loaded \in {ArchiveOnFirstUse(load_outcome)} :
        /\ product_archive_state' = Some(loaded.state)
        /\ archive_file' = loaded.file
        /\ result' = IF loaded.raised THEN WriteError("get_archive_stats")
                     ELSE [op |-> "get_archive_stats", outcome |-> "returned",
                           total_items |-> Cardinality(DOMAIN loaded.state.items),
                           total_products |->
                               Cardinality(DOMAIN ProductCounts(loaded.state.items)),
                           products |-> ProductCounts(loaded.state.items),
                           last_updated |-> loaded.state.metadata.last_updated]
        /\ UNCHANGED <<inventory, historyVars, clock, process, issued, calls>>

\* the process ends and a new one imports the modules: the globals are back at
\* None and 1, the files and the caller's inventory are as they were left
Restart ==
    /\ process < MaxProcesses
    /\ process' = process + 1
    /\ relocation_history_state' = None
    /\ next_relocation_id' = 1
    /\ product_archive_state' = None
    /\ result' = [op |-> "restart", outcome |-> "none"]
    /\ UNCHANGED <<inventory, history_file, archive_file, clock, issued, calls>>

----------------------------------------------------------------------------
(* Inventories *)

RECURSIVE AscendingSeq(_)
AscendingSeq(S) ==
    IF S = {} THEN <<>>
    ELSE LET m == CHOOSE x \in S : \A y \in S : x <= y
         IN  <<m>> \o AscendingSeq(S \ {m})

Reverse(s) == [k \in 1..Len(s) |-> s[Len(s) + 1 - k]]

Item(id, product_id, barcode, width, height, depth, vsu_id, stock_index) ==
    [id |-> id, product_id |-> product_id, barcode |-> barcode,
     width |-> width, height |-> height, depth |-> depth,
     vsu_id |-> vsu_id, stock_index |-> stock_index]

Vsu(id, code, shelf_id, width, height, depth, volume, occupants) ==
    [id |-> id, code |-> code, shelf_id |-> shelf_id,
     width |-> width, height |-> height, depth |-> depth, volume |-> volume,
     position |-> [x |-> id, y |-> shelf_id, z |-> 0],
     items |-> occupants, occupied |-> occupants # <<>>]

Shelf(id, name, rack_id, units) ==
    [id |-> id, name |-> name, rack_id |-> rack_id, virtual_units |-> units]

\* the place of x in the list s, counted from 0
IndexIn(s, x) == (CHOOSE k \in 1..Len(s) : s[k] = x) - 1

ItemIds == 1..MaxItems
CallIds == 1..(MaxItems + 1)
Reasons == {"obstruction_removal", "manual"}
TaskIds == {"task-1"}
StartFiles == {NoFile, CorruptFile}

\* A small warehouse: two racks, three shelves, five slots; shelf 3 also lists a
\* slot id (9) that the virtual_units mapping does not have.  Items start in slot
\* 1 or slot 4, several to a slot, or are not placed at all; the widest item fits
\* slots 1 and 4 only.
HomeSlots == {1, 4}

WarehouseShelves ==
    << Shelf(1, "A-01", 1, <<1, 2>>),
       Shelf(2, "A-02", 1, <<3>>),
       Shelf(3, "B-01", 2, <<4, 5, 9>>) >>

WarehouseUnits(home) ==
    LET Occupants(v) == AscendingSeq({i \in ItemIds : home[i] = Some(v)})
    IN  (1 :> Vsu(1, "A-01-01", 1, MaxItems + 2, 2, 1, None, Occupants(1)))
     @@ (2 :> Vsu(2, "A-01-02", 1, 1, 2, 1, None, <<>>))
     @@ (3 :> Vsu(3, "A-02-01", 2, 2, 2, 1, None, <<>>))
     @@ (4 :> Vsu(4, "B-01-01", 3, MaxItems + 2, 2, 1, Some(2 * MaxItems + 4),
                  Occupants(4)))
     @@ (5 :> Vsu(5, "B-01-02", 3, 2, 2, 1, Some(4), <<>>))

WarehouseItems(home) ==
    [i \in ItemIds |->
        Item(i, 1 + (i % 2), "X1", IF i = MaxItems THEN MaxItems + 2 ELSE i, 1, 1,
             home[i],
             IF home[i] = None THEN 0
             ELSE IndexIn(WarehouseUnits(home)[home[i][1]].items, i))]

NoResult == [op |-> "none", outcome |-> "none"]

\* a process that has not used its stores yet
StoresInit(files) ==
    /\ relocation_history_state = None
    /\ next_relocation_id = 1
    /\ history_file \in files
    /\ product_archive_state = None
    /\ archive_file \in files
    /\ clock = 1
    /\ result = NoResult
    /\ process = 1
    /\ issued = {}
    /\ calls = NoCalls

Init ==
    /\ \E home \in [ItemIds -> {None} \cup {Some(v) : v \in HomeSlots}] :
          /\ items = WarehouseItems(home)
          /\ virtual_units = WarehouseUnits(home)
    /\ shelves = WarehouseShelves
    /\ StoresInit(StartFiles)

\* a first load writes only when the aggregate is not in memory yet
FirstUseOutcomes(state) == IF state = None THEN SaveOutcomes ELSE {"ok"}

\* the call gets as far as the move (lines 326-374), where the reason and the
\* final save come into play
ReachesMove(item_id) ==
    /\ item_id \in DOMAIN items
    /\ items[item_id].vsu_id # None
    /\ find_empty_vsu_for_relocate(
            items[item_id], virtual_units[items[item_id].vsu_id[1]].shelf_id,
            virtual_units, shelves) # None

Relocate ==
    \E item_id \in CallIds,
       load_outcome \in FirstUseOutcomes(relocation_history_state) :
        \E moves \in {ReachesMove(item_id)} :
        \E reason \in (IF moves THEN Reasons ELSE {"obstruction_removal"}),
           save_outcome \in (IF moves THEN SaveOutcomes ELSE {"ok"}) :
            relocate_item(item_id, reason, load_outcome, save_outcome)

DispenseItem ==
    \E item_id \in ItemIds, task_id \in TaskIds,
       load_outcome \in FirstUseOutcomes(product_archive_state),
       save_outcome \in SaveOutcomes :
        Dispense(item_id, task_id, load_outcome, save_outcome)

ArchiveItem ==
    \E item_id \in ItemIds, task_id \in TaskIds,
       load_outcome \in FirstUseOutcomes(product_archive_state),
       save_outcome \in SaveOutcomes :
        ArchiveCall(item_id, task_id, load_outcome, save_outcome)

\* Serial relocate calls, with every outcome of the file writes
Next == Relocate

Spec == Init /\ [][Next]_vars

\* Serial relocations and dispenses; the history file is always writable here
RelocateWritable ==
    \E item_id \in CallIds :
        relocate_item(item_id, "obstruction_removal", "ok", "ok")

NextDispense == RelocateWritable \/ DispenseItem

SpecDispense == Init /\ [][NextDispense]_vars

\* Serial relocate calls only, the history file always writable: every call
\* either returns or is refused with an HTTP status
NextSerial == RelocateWritable

SpecSerial == Init /\ [][NextSerial]_vars

\* The life of the two stores over several processes: relocations, archive calls
\* and queries with every outcome of the file writes, and restarts.  The clock
\* has ticked once per relocation, so it bounds their number over all processes.
RelocateOnce == clock <= MaxRelocations /\ Relocate

RelocationHistoryQuery ==
    \E load_outcome \in FirstUseOutcomes(relocation_history_state) :
        get_relocation_history(load_outcome)

RelocationStatsQuery ==
    \E load_outcome \in FirstUseOutcomes(relocation_history_state) :
        get_relocation_stats(load_outcome)

ArchiveStatsQuery ==
    \E load_outcome \in FirstUseOutcomes(product_archive_state) :
        get_archive_stats(load_outcome)

\* relocate_item called with its default reason
RelocateDefaultReason ==
    /\ clock <= MaxRelocations
    /\ \E item_id \in CallIds,
          load_outcome \in FirstUseOutcomes(relocation_history_state) :
          \E save_outcome \in (IF ReachesMove(item_id) THEN SaveOutcomes ELSE {"ok"}) :
             relocate_item(item_id, "obstruction_removal", load_outcome, save_outcome)

NextStores ==
    \/ RelocateDefaultReason
    \/ ArchiveItem
    \/ RelocationHistoryQuery
    \/ RelocationStatsQuery
    \/ ArchiveStatsQuery
    \/ Restart

\* The relocation history alone over several processes
NextHistory ==
    \/ RelocateOnce
    \/ RelocationHistoryQuery
    \/ RelocationStatsQuery
    \/ Restart

\* the first and the widest item start in slot 1, in slot 4 or unplaced, any
\* other item unplaced; the data directory is empty or holds unreadable files
HistoryHomes ==
    {home \in [ItemIds -> {None} \cup {Some(v) : v \in HomeSlots}] :
        \A i \in ItemIds : (i # 1 /\ i # MaxItems) => home[i] = None}

InitHistory ==
    /\ \E home \in HistoryHomes :
          /\ items = WarehouseItems(home)
          /\ virtual_units = WarehouseUnits(home)
    /\ shelves = WarehouseShelves
    /\ \E file \in StartFiles : StoresInit({file})

SpecHistory == InitHistory /\ [][NextHistory]_vars

\* Both stores: the widest item starts in slot 1, the others are not placed
\* yet, and the data directory is either empty or holds two unreadable files
OnlyWidestPlaced == [i \in ItemIds |-> IF i = MaxItems THEN Some(1) ELSE None]

InitBothStores ==
    /\ items = WarehouseItems(OnlyWidestPlaced)
    /\ virtual_units = WarehouseUnits(OnlyWidestPlaced)
    /\ shelves = WarehouseShelves
    /\ \E file \in StartFiles : StoresInit({file})

SpecStores == InitBothStores /\ [][NextStores]_vars

\* The archive over several processes: the first and the widest item start in
\* slot 1 and can be archived and counted, the first item re-archived after a
\* relocation has moved it; the items are all of one product or of the products of the
\* small warehouse
EndsInSlotOne == [i \in ItemIds |-> IF i = 1 \/ i = MaxItems THEN Some(1) ELSE None]

OneProduct(inventory_items) ==
    [i \in DOMAIN inventory_items |-> [inventory_items[i] EXCEPT !.product_id = 1]]

InitArchive ==
    /\ items \in {WarehouseItems(EndsInSlotOne), OneProduct(WarehouseItems(EndsInSlotOne))}
    /\ virtual_units = WarehouseUnits(EndsInSlotOne)
    /\ shelves = WarehouseShelves
    /\ \E file \in StartFiles : StoresInit({file})

\* relocate_item called for the first item, the history file writable
RelocateFirstItem == relocate_item(1, "obstruction_removal", "ok", "ok")

NextArchive ==
    \/ ArchiveItem
    \/ RelocateFirstItem
    \/ ArchiveStatsQuery
    \/ Restart

SpecArchive == InitArchive /\ [][NextArchive]_vars

\* Two callers, each making one relocate_item call for an item of its own,
\* their blocks of statements interleaved in every order; the history file is
\* writable
NarrowItems(inventory_items) ==
    [i \in DOMAIN inventory_items |-> [inventory_items[i] EXCEPT !.width = 1]]

\* the items of the small warehouse, or as many items that all fit every slot
InitRace ==
    /\ \E home \in [ItemIds -> {None} \cup {Some(v) : v \in HomeSlots}] :
          /\ items \in {WarehouseItems(home), NarrowItems(WarehouseItems(home))}
          /\ virtual_units = WarehouseUnits(home)
    /\ shelves = WarehouseShelves
    /\ StoresInit({NoFile})

\* the two calls are for different items
RaceSearchStep ==
    \E c \in Callers, item_id \in CallIds :
        /\ \A d \in Callers \ {c} : calls[d].item_id # item_id
        /\ RaceSearch(c, item_id, "obstruction_removal")

RacePlaceStep == \E c \in Callers : RacePlace(c)
RaceIndexStep == \E c \in Callers : RaceIndex(c)
RaceStoreStep == \E c \in Callers : RaceStore(c)
RaceIncrementStep == \E c \in Callers : RaceIncrement(c)
RaceSaveStep == \E c \in Callers : RaceSave(c)

NextRace ==
    \/ RaceSearchStep
    \/ RacePlaceStep
    \/ RaceIndexStep
    \/ RaceStoreStep
    \/ RaceIncrementStep
    \/ RaceSaveStep

SpecRace == InitRace /\ [][NextRace]_vars

----------------------------------------------------------------------------
(* Ranking: one item in slot A-01-03 and three other slots whose shelf, state  *)
(* and wasted volume vary, scanned in either order.  A slot's dimensions are  *)
(* whole millimetres; its volume attribute, which the score reads, is exact.  *)

RankedItem == Item(42, 7, "X1", 100, 50, 30, Some(3), 0)

RankShelfIds == {1, 2, 3}
RankShelfName(sid) == CASE sid = 1 -> "A-01" [] sid = 2 -> "A-02" [] OTHER -> "B-02"
RankRackId(sid) == IF sid = 3 THEN 2 ELSE 1
RankCode(sid, v) ==
    CASE sid = 1 /\ v = 7 -> "A-01-07" [] sid = 1 /\ v = 8 -> "A-01-08"
      [] sid = 1 /\ v = 9 -> "A-01-09" [] sid = 2 /\ v = 7 -> "A-02-07"
      [] sid = 2 /\ v = 8 -> "A-02-08" [] sid = 2 /\ v = 9 -> "A-02-09"
      [] sid = 3 /\ v = 7 -> "B-02-07" [] sid = 3 /\ v = 8 -> "B-02-08"
      [] OTHER -> "B-02-01"

RankWastes == {5, 10, 50, 1000, 1010}
FreeSlot(w) == [state |-> "empty", waste |-> w]
TakenSlot == [state |-> "occupied", waste |-> 10]
NarrowSlot == [state |-> "narrow", waste |-> 10]
\* slots 7 and 8 take every kind, slot 9 three of them
RankKinds(v) ==
    IF v = 9 THEN {FreeSlot(10), TakenSlot, NarrowSlot}
    ELSE {FreeSlot(w) : w \in RankWastes} \cup {TakenSlot, NarrowSlot}
RankSlots == {7, 8, 9}
\* the item that occupies a taken slot
Occupant(v) == 100 + v

RankUnits(shelf_of, kind) ==
    (3 :> Vsu(3, "A-01-03", 1, 100, 50, 30, Some(150000), <<42>>))
    @@ [v \in RankSlots |->
          Vsu(v, RankCode(shelf_of[v], v), shelf_of[v],
              IF kind[v].state = "narrow" THEN 99 ELSE 100, 50, 31,
              Some(ItemVolume(RankedItem) + kind[v].waste),
              IF kind[v].state = "occupied" THEN <<Occupant(v)>> ELSE <<>>)]

RankItems(kind) ==
    (42 :> RankedItem)
    @@ [i \in {Occupant(v) : v \in {u \in RankSlots : kind[u].state = "occupied"}} |->
          Item(i, 8, "Y2", 100, 50, 30, Some(i - 100), 0)]

RankShelves(shelf_of, shelf_order, descending) ==
    [k \in 1..Len(shelf_order) |->
        LET sid == shelf_order[k]
            units == AscendingSeq({v \in RankSlots \cup {3} :
                                    IF v = 3 THEN sid = 1 ELSE shelf_of[v] = sid})
        IN  Shelf(sid, RankShelfName(sid), RankRackId(sid),
                  IF descending THEN Reverse(units) ELSE units)]

InitRank ==
    /\ \E shelf_of \in [RankSlots -> RankShelfIds],
          shelf_order \in {<<1, 2, 3>>, <<3, 2, 1>>},
          descending \in BOOLEAN :
          \E kind \in [RankSlots -> UNION {RankKinds(v) : v \in RankSlots}] :
             /\ \A v \in RankSlots : kind[v] \in RankKinds(v)
             /\ items = RankItems(kind)
             /\ virtual_units = RankUnits(shelf_of, kind)
             /\ shelves = RankShelves(shelf_of, shelf_order, descending)
    /\ StoresInit({NoFile})

RankFind == FindOnly(42)

\* the first relocate call of the process, the history file writable
RankRelocate ==
    /\ relocation_history_state = None
    /\ \E reason \in Reasons : relocate_item(42, reason, "ok", "ok")

NextRank == RankFind \/ RankRelocate

SpecRank == InitRank /\ [][NextRank]_vars

----------------------------------------------------------------------------
(* Properties of serial relocation *)

VsuIds == DOMAIN virtual_units
Moved == result.op = "relocate" /\ result.outcome = "returned"
SlotsListing(item_id) == {v \in VsuIds : item_id \in Range(virtual_units[v].items)}
Archived(item_id) ==
    /\ product_archive_state # None
    /\ item_id \in DOMAIN product_archive_state[1].items

RECURSIVE SumLen(_, _)
SumLen(vu, S) ==
    IF S = {} THEN 0
    ELSE LET v == CHOOSE x \in S : TRUE
         IN  Len(vu[v].items) + SumLen(vu, S \ {v})

\* a step in which relocate_item moved an item and returned
MovedStep ==
    /\ next_relocation_id' = next_relocation_id + 1
    /\ result'.op = "relocate"
    /\ result'.outcome = "returned"

\* C1: every item with a non-null vsu_id is listed exactly once in the occupant
\* list of the VSU its vsu_id names, and in no other VSU's list, after any
\* sequence of serial relocate calls, successful or failing.
C1_ItemInExactlyItsHomeSlot ==
    \A i \in DOMAIN items :
        items[i].vsu_id # None =>
            /\ items[i].vsu_id[1] \in VsuIds
            /\ Count(virtual_units[items[i].vsu_id[1]].items, i) = 1
            /\ SlotsListing(i) = {items[i].vsu_id[1]}

\* two relocations were made and a later call failed for want of a slot
C1_Witness ==
    /\ next_relocation_id > 2
    /\ result = HttpError("relocate", 503)
    /\ \E i \in DOMAIN items : items[i].vsu_id # None

\* C3: a successful relocate takes exactly one occupant from the origin, adds
\* exactly one to the destination, leaves every other VSU's occupant list as it
\* was, and so keeps the number of placed items.
C3_OneOutOneIn ==
    [][MovedStep =>
        LET o == result'.original_vsu_id
            n == result'.new_vsu_id
        IN  /\ items[result'.item_id].vsu_id = Some(o)
            /\ Len(virtual_units'[o].items) = Len(virtual_units[o].items) - 1
            /\ Len(virtual_units'[n].items) = Len(virtual_units[n].items) + 1
            /\ \A v \in VsuIds \ {o, n} :
                  virtual_units'[v].items = virtual_units[v].items
            /\ DOMAIN virtual_units' = VsuIds
            /\ SumLen(virtual_units', VsuIds) = SumLen(virtual_units, VsuIds)]_vars

\* a relocate has returned, out of a slot that still holds another item
C3_Witness ==
    /\ Moved
    /\ virtual_units[result.original_vsu_id].items # <<>>
    /\ virtual_units[result.new_vsu_id].items = <<result.item_id>>

\* C4 as stated: after a successful relocate between two distinct VSUs exactly
\* one of origin and destination has a non-empty occupant list, also when the
\* item shared its origin with other occupants.
C4_ExactlyOneNonEmpty ==
    (Moved /\ result.original_vsu_id # result.new_vsu_id) =>
        ~ ((virtual_units[result.original_vsu_id].items # <<>>)
            <=> (virtual_units[result.new_vsu_id].items # <<>>))

\* C4 as amended: after a successful relocate between two distinct VSUs the
\* destination is non-empty, and the origin is empty exactly when the item was
\* its only occupant; an origin shared with other occupants stays non-empty.
C4_OriginEmptyIffSoleOccupant ==
    [][(MovedStep /\ result'.original_vsu_id # result'.new_vsu_id) =>
        LET o == result'.original_vsu_id
            n == result'.new_vsu_id
        IN  /\ virtual_units'[n].items # <<>>
            /\ (virtual_units'[o].items = <<>>)
                  <=> (virtual_units[o].items = <<result'.item_id>>)]_vars

\* a relocate has returned and both origin and destination hold items
C4_Witness ==
    /\ Moved
    /\ result.original_vsu_id # result.new_vsu_id
    /\ virtual_units[result.original_vsu_id].items # <<>>
    /\ virtual_units[result.new_vsu_id].items # <<>>

\* C5: after a successful relocate the item's vsu_id is the destination's id, its
\* stock_index is the length of the destination's occupant list minus one, and
\* the new_vsu_id and stock_index returned are the values stored on the item.
C5_StockIndexIsLastPosition ==
    Moved =>
        LET item == items[result.item_id]
            new_vsu == virtual_units[result.new_vsu_id]
        IN  /\ item.vsu_id = Some(new_vsu.id)
            /\ new_vsu.id = result.new_vsu_id
            /\ item.stock_index = Len(new_vsu.items) - 1
            /\ new_vsu.items[Len(new_vsu.items)] = result.item_id
            /\ result.stock_index = item.stock_index

\* a second relocate has returned
C5_Witness ==
    /\ Moved
    /\ next_relocation_id = 3
    /\ items[result.item_id].vsu_id = Some(result.new_vsu_id)

\* C6: a VSU's occupied flag is true exactly when its occupant list is
\* non-empty, in every state serial relocate calls reach; after a successful
\* relocate the origin's flag is false if its list became empty and true
\* otherwise, and the destination's flag is true.
C6_OccupiedIffNonEmpty ==
    /\ \A v \in VsuIds : virtual_units[v].occupied <=> (virtual_units[v].items # <<>>)
    /\ Moved =>
          /\ virtual_units[result.new_vsu_id].occupied
          /\ virtual_units[result.original_vsu_id].occupied
                <=> (virtual_units[result.original_vsu_id].items # <<>>)

\* a relocate has returned and emptied its origin
C6_Witness ==
    /\ Moved
    /\ virtual_units[result.original_vsu_id].items = <<>>
    /\ ~ virtual_units[result.original_vsu_id].occupied
    /\ virtual_units[result.new_vsu_id].occupied

----------------------------------------------------------------------------
(* Relocations and dispenses together *)

\* C2: after any sequence of relocations and dispenses every item id that has a
\* slot or has left the inventory is either in exactly one VSU occupant list,
\* once, or recorded in the archive, never both and never neither.  (An item the
\* inventory holds with a null vsu_id has not been placed yet and is not counted.)
C2_InOneSlotOrArchived ==
    \A i \in ItemIds :
        (i \in DOMAIN items /\ items[i].vsu_id = None)
        \/ /\ \A v \in VsuIds : Count(virtual_units[v].items, i) <= 1
           /\ Cardinality(SlotsListing(i)) <= 1
           /\ ~ ((Cardinality(SlotsListing(i)) = 1) <=> Archived(i))

----------------------------------------------------------------------------
(* Properties of the candidate search, stated over the inventory itself *)

\* where the scan meets slot v: <<shelf position, position in its virtual_units>>
ScanPlaces(v) ==
    {<<n, k>> \in (1..Len(shelves)) \X (1..4) :
        k <= Len(shelves[n].virtual_units) /\ shelves[n].virtual_units[k] = v}
ScanPlace(v) == CHOOSE p \in ScanPlaces(v) : TRUE
ScannedBefore(u, v) ==
    \/ ScanPlace(u)[1] < ScanPlace(v)[1]
    \/ ScanPlace(u)[1] = ScanPlace(v)[1] /\ ScanPlace(u)[2] < ScanPlace(v)[2]

\* the slots an item could go to: listed under a shelf, empty, large enough
EmptyFitting(item_id) ==
    {v \in VsuIds :
        /\ ScanPlaces(v) # {}
        /\ virtual_units[v].items = <<>>
        /\ items[item_id].width <= virtual_units[v].width
        /\ items[item_id].height <= virtual_units[v].height
        /\ items[item_id].depth <= virtual_units[v].depth}

\* 0: on the item's shelf, 1: on another shelf of its rack, 2: elsewhere
Tier(item_id, v) ==
    LET home == ShelfGet(shelves, virtual_units[items[item_id].vsu_id[1]].shelf_id)[1]
        shelf == shelves[ScanPlace(v)[1]]
    IN  IF shelf.id = home.id THEN 0
        ELSE IF shelf.rack_id = home.rack_id THEN 1
        ELSE 2

Wasted(item_id, v) ==
    virtual_units[v].volume[1]
        - items[item_id].width * items[item_id].height * items[item_id].depth

FoundSlot == result.found[1].vsu_id
Searched == result.op = "find"

\* C7: the search returns a same-shelf candidate whenever there is one, else a
\* same-rack candidate whenever there is one, else another candidate, however
\* large the difference in wasted volume.
C7_BetterTierAlwaysWins ==
    (Searched /\ EmptyFitting(result.item_id) # {}) =>
        /\ result.found # None
        /\ FoundSlot \in EmptyFitting(result.item_id)
        /\ \A c \in EmptyFitting(result.item_id) :
              Tier(result.item_id, FoundSlot) <= Tier(result.item_id, c)

\* exactly two candidates: A on the item's shelf wasting 50, B on another shelf of
\* its rack wasting 5
TwoCandidates50And5(i, A, B) ==
    /\ A # B
    /\ EmptyFitting(i) = {A, B}
    /\ Tier(i, A) = 0 /\ Wasted(i, A) = 50
    /\ Tier(i, B) = 1 /\ Wasted(i, B) = 5

\* C8: of exactly two empty fitting candidates, A on the item's shelf with wasted
\* volume 50 and B on another shelf of the same rack with wasted volume 5, the
\* search selects A.
C8_SameShelf50BeatsSameRack5 ==
    Searched =>
        \A A, B \in VsuIds :
            TwoCandidates50And5(result.item_id, A, B) =>
                result.found # None /\ FoundSlot = A

\* the search has run on such a pair, B being scanned first
C8_Witness ==
    /\ Searched
    /\ \E A, B \in VsuIds :
          /\ TwoCandidates50And5(result.item_id, A, B)
          /\ ScannedBefore(B, A)

\* item 42 in A-01-03 on shelf A-01; A-01-07 on that shelf empty and fitting with
\* wasted volume 1000; B-02-01 on another rack empty and fitting with wasted
\* volume 10; no other candidate
Scenario42 ==
    /\ 42 \in DOMAIN items
    /\ items[42].vsu_id = Some(3)
    /\ virtual_units[3].code = "A-01-03"
    /\ EmptyFitting(42) = {7, 9}
    /\ virtual_units[7].code = "A-01-07" /\ Tier(42, 7) = 0 /\ Wasted(42, 7) = 1000
    /\ virtual_units[9].code = "B-02-01" /\ Tier(42, 9) = 2 /\ Wasted(42, 9) = 10

\* C9: in that scenario relocate(42) moves the item to A-01-07, appends a
\* relocation record with reason "obstruction_removal" that names A-01-03 as the
\* origin and A-01-07 as the destination, and leaves item 42 with the vsu_id of
\* A-01-07 and stock_index 0.
C9_Scenario42GoesToA0107 ==
    [][(Scenario42 /\ MovedStep /\ result'.item_id = 42
            /\ result'.reason = "obstruction_removal") =>
        /\ items'[42].vsu_id = Some(virtual_units[7].id)
        /\ items'[42].stock_index = 0
        /\ virtual_units'[7].items = <<42>>
        /\ virtual_units'[3].items = <<>>
        /\ virtual_units'[9].items = <<>>
        /\ LET before == IF relocation_history_state = None THEN {}
                         ELSE DOMAIN relocation_history_state[1].relocations
               after == relocation_history_state'[1].relocations
           IN  /\ Cardinality(DOMAIN after \ before) = 1
               /\ \A k \in DOMAIN after \ before :
                     /\ after[k].item_id = 42
                     /\ after[k].reason = "obstruction_removal"
                     /\ after[k].original_vsu_id = 3
                     /\ after[k].original_vsu_code = "A-01-03"
                     /\ after[k].new_vsu_id = 7
                     /\ after[k].new_vsu_code = "A-01-07"]_vars

\* relocate(42) has returned in that scenario
C9_Witness ==
    /\ Moved
    /\ result.item_id = 42
    /\ result.reason = "obstruction_removal"
    /\ result.original_vsu_code = "A-01-03"
    /\ virtual_units[7].code = "A-01-07" /\ Tier(42, 7) = 0
    /\ virtual_units[7].volume = Some(151000)
    /\ EmptyFitting(42) \cup {result.new_vsu_id} = {3, 7, 9}
    /\ virtual_units[9].code = "B-02-01" /\ Wasted(42, 9) = 10

\* the score as the design states it: wasted volume less the locality bonus
StatedScore(item_id, v) ==
    Wasted(item_id, v)
        - (CASE Tier(item_id, v) = 0 -> 1000 [] Tier(item_id, v) = 1 -> 500 [] OTHER -> 0)

\* C10: the slot the search returns wastes the least volume among the candidates
\* of its locality tier, and among candidates of the same least score it is the
\* one the scan meets first (shelves in mapping order, each shelf's
\* virtual_units in list order).
C10_LeastWasteThenFirstScanned ==
    (Searched /\ result.found # None) =>
        \A c \in EmptyFitting(result.item_id) \ {FoundSlot} :
            /\ Tier(result.item_id, c) = Tier(result.item_id, FoundSlot) =>
                  Wasted(result.item_id, FoundSlot) <= Wasted(result.item_id, c)
            /\ StatedScore(result.item_id, FoundSlot) <= StatedScore(result.item_id, c)
            /\ StatedScore(result.item_id, c) = StatedScore(result.item_id, FoundSlot) =>
                  ScannedBefore(FoundSlot, c)

\* the search chose among three candidates: one of its tier wasting more, one of
\* another tier with the same score
C10_Witness ==
    /\ Searched
    /\ result.found # None
    /\ \E c, d \in EmptyFitting(result.item_id) \ {FoundSlot} :
          /\ Tier(result.item_id, c) = Tier(result.item_id, FoundSlot)
          /\ Wasted(result.item_id, c) > Wasted(result.item_id, FoundSlot)
          /\ Tier(result.item_id, d) # Tier(result.item_id, FoundSlot)
          /\ StatedScore(result.item_id, d) = StatedScore(result.item_id, FoundSlot)

\* C11: the search returns a VSU only if that VSU's occupant list is empty and
\* the item's width, height and depth are each at most the VSU's (equal fits);
\* it returns None exactly when no VSU listed under a shelf is empty and fitting.
C11_FoundIsEmptyAndFits ==
    Searched =>
        /\ result.found # None =>
              /\ FoundSlot \in VsuIds
              /\ \E n \in 1..Len(shelves) : FoundSlot \in Range(shelves[n].virtual_units)
              /\ virtual_units[FoundSlot].items = <<>>
              /\ items[result.item_id].width <= virtual_units[FoundSlot].width
              /\ items[result.item_id].height <= virtual_units[FoundSlot].height
              /\ items[result.item_id].depth <= virtual_units[FoundSlot].depth
        /\ (result.found = None) <=> (EmptyFitting(result.item_id) = {})

\* the search returned a slot exactly as wide and as high as the item, passing
\* over an occupied slot and an empty slot that is too narrow
C11_Witness ==
    /\ Searched
    /\ result.found # None
    /\ items[result.item_id].width = virtual_units[FoundSlot].width
    /\ items[result.item_id].height = virtual_units[FoundSlot].height
    /\ \E u, v \in VsuIds \ {FoundSlot, items[result.item_id].vsu_id[1]} :
          /\ virtual_units[u].items # <<>>
          /\ virtual_units[v].items = <<>>
          /\ virtual_units[v].width < items[result.item_id].width

----------------------------------------------------------------------------
(* Properties of the relocation history over several processes *)

\* the records and the next id as the process knows them: those in memory, or,
\* before the first use, those the first use will load
KnownRelocationsOf(state, file) ==
    IF state # None THEN state[1].relocations
    ELSE IF file.kind = "json" THEN ParsedRelocations(file)
    ELSE << >>

KnownNextIdOf(state, next_id, file) ==
    IF state = None /\ DOMAIN KnownRelocationsOf(state, file) # {}
    THEN MaxKey(DOMAIN KnownRelocationsOf(state, file)) + 1
    ELSE next_id

\* the step is a call relocate_item(item_id, ...) that does not get to the move
RelocateStopsEarly(item_id) ==
    \E load_outcome \in SaveOutcomes :
        relocate_item(item_id, "obstruction_removal", load_outcome, "ok")

\* the call was the first use of the history and the write of the fresh
\* aggregate failed: the OSError comes before any other check
FirstLoadWriteFailed ==
    /\ relocation_history_state = None
    /\ history_file.kind # "json"
    /\ history_file'.kind # "json"
    /\ result' = [op |-> "relocate", outcome |-> "OSError"]

NothingMutated ==
    /\ items' = items
    /\ virtual_units' = virtual_units
    /\ shelves' = shelves
    /\ KnownRelocationsOf(relocation_history_state', history_file')
          = KnownRelocationsOf(relocation_history_state, history_file)
    /\ KnownNextIdOf(relocation_history_state', next_relocation_id', history_file')
          = KnownNextIdOf(relocation_history_state, next_relocation_id, history_file)
    /\ issued' = issued

IdAfterLoad(keys) ==
    IF keys = {} THEN 1
    ELSE (CHOOSE m \in keys : \A k \in keys : k <= m) + 1

\* C14: when a fresh process loads a history file holding records under ids
\* 1..N, the next successful relocation is stored under N+1 (in general under
\* max(existing ids)+1, under 1 when the file holds no record), the loaded
\* records are kept, and within a process every further relocation is stored
\* under the next id, which is greater than every id held.
C14_ReloadContinuesIds ==
    [][/\ (relocation_history_state = None /\ history_file.kind = "json"
             /\ relocation_history_state' # None) =>
            LET keys == {k.str : k \in DOMAIN history_file.relocations}
                after == DOMAIN relocation_history_state'[1].relocations
            IN  /\ keys \subseteq after
                /\ keys = 1..Cardinality(keys)
                /\ IdAfterLoad(keys) = Cardinality(keys) + 1
                /\ IF after # keys
                   THEN /\ after \ keys = {IdAfterLoad(keys)}
                        /\ next_relocation_id' = IdAfterLoad(keys) + 1
                   ELSE next_relocation_id' = IdAfterLoad(keys)
       /\ (relocation_history_state # None /\ relocation_history_state' # None) =>
            LET before == DOMAIN relocation_history_state[1].relocations
                after == DOMAIN relocation_history_state'[1].relocations
            IN  \/ after = before /\ next_relocation_id' = next_relocation_id
                \/ /\ after = before \cup {next_relocation_id}
                   /\ \A k \in before : k < next_relocation_id
                   /\ next_relocation_id' = next_relocation_id + 1]_vars

\* the second process holds the record the first process stored under id 1 and
\* has stored its own relocation under id 2
C14_Witness ==
    /\ process = 2
    /\ Moved
    /\ issued = {<<1, 1, 1>>, <<2, 2, 2>>}
    /\ DOMAIN relocation_history_state[1].relocations = {1, 2}
    /\ relocation_history_state[1].relocations[1].relocated_at = [dt |-> 1]
    /\ next_relocation_id = 3

\* C15: no relocation id is ever given to two different relocation events, over
\* any sequence of relocations, failed saves, restarts and loads (the fallback
\* for an unreadable file included).
C15_NoIdIssuedTwice ==
    \A p, q \in issued : p[1] = q[1] => p = q

\* a step in which relocate_item stored a record and its save then failed
SaveFailedStep ==
    /\ issued' # issued
    /\ result'.op = "relocate"
    /\ result'.outcome = "OSError"

\* the file as the last save before this call's own save left it: the file
\* itself, or the fresh history the call's first load has just written
FileBeforeSave ==
    IF relocation_history_state = None /\ history_file.kind # "json"
    THEN [kind |-> "json", relocations |-> << >>,
          metadata |-> [total_relocations |-> 0,
                        last_updated |-> <<[str |-> clock]>>, version |-> "1.0"]]
    ELSE history_file

\* nothing is rolled back: the item is in the destination, the record is in the
\* in-memory history under the id that was next, the next id is one more
NotRolledBack ==
    \E id \in {p[1] : p \in issued' \ issued} :
        LET record == relocation_history_state'[1].relocations[id]
        IN  /\ id = KnownNextIdOf(relocation_history_state, next_relocation_id,
                                  history_file)
            /\ next_relocation_id' = id + 1
            /\ items[record.item_id].vsu_id = <<record.original_vsu_id>>
            /\ items'[record.item_id].vsu_id = <<record.new_vsu_id>>
            /\ record.item_id \in Range(virtual_units'[record.new_vsu_id].items)
            /\ record.relocated_at = [dt |-> clock]

\* a step in which relocate_item stored a record, saved and returned
SavedStep ==
    /\ issued' # issued
    /\ result'.op = "relocate"
    /\ result'.outcome = "returned"

\* after a relocate that returned, the file holds every record held in memory
MemoryAndDiskAgree ==
    /\ history_file'.kind = "json"
    /\ {k.str : k \in DOMAIN history_file'.relocations}
          = DOMAIN relocation_history_state'[1].relocations
    /\ \A k \in DOMAIN relocation_history_state'[1].relocations :
          history_file'.relocations[[str |-> k]]
            = [relocation_history_state'[1].relocations[k] EXCEPT
                  !.relocated_at = [str |-> @.dt]]

\* C20 as stated: when the history save fails during relocate the error
\* propagates, nothing is rolled back, and the file still holds the previous
\* save; the next successful save writes every in-memory record.
C20_FileHoldsPreviousSave ==
    [][/\ SaveFailedStep => (NotRolledBack /\ history_file' = FileBeforeSave)
       /\ SavedStep => MemoryAndDiskAgree]_vars

\* C20 as amended: when the history save fails during relocate the error
\* propagates and nothing is rolled back (item in the destination, record in
\* memory, next id incremented); the file holds the previous save when the
\* failure came before the file was opened for writing and is left truncated,
\* hence unreadable, when the write itself failed; the next successful save
\* writes every in-memory record, so memory and disk agree again.
C20_FileKeptOrTruncated ==
    [][/\ SaveFailedStep =>
            /\ NotRolledBack
            /\ history_file' \in {FileBeforeSave, [kind |-> "corrupt"]}
       /\ SavedStep => MemoryAndDiskAgree]_vars

\* a second relocation's save has failed in the middle of the write: memory
\* holds both records, the file is truncated
C20_Witness ==
    /\ result.op = "relocate" /\ result.outcome = "OSError"
    /\ process = 1
    /\ issued = {<<1, 1, 1>>, <<2, 2, 1>>}
    /\ DOMAIN relocation_history_state[1].relocations = {1, 2}
    /\ next_relocation_id = 3
    /\ history_file.kind = "corrupt"

----------------------------------------------------------------------------
(* Properties of the two stores and their files *)

HistoryOps == {"relocate", "get_relocation_history", "get_relocation_stats"}
ArchiveOps == {"archive", "get_archive_stats"}
FileKeysOf(mapping) == {k.str : k \in DOMAIN mapping}

\* C16: every history or archive file a save has written carries a metadata
\* count equal to the number of its records, and right after a relocate or an
\* archive call whose save succeeded the in-memory metadata count equals the
\* number of in-memory records and the count on disk: total_relocations for
\* the history, total_items for the archive.
C16_CountEqualsSizeAfterSave ==
    /\ history_file.kind = "json" =>
          history_file.metadata.total_relocations
              = Cardinality(DOMAIN history_file.relocations)
    /\ archive_file.kind = "json" =>
          archive_file.metadata.total_items = Cardinality(DOMAIN archive_file.items)
    /\ (result.op = "relocate" /\ result.outcome = "returned") =>
          /\ relocation_history_state[1].metadata.total_relocations
                = Cardinality(DOMAIN relocation_history_state[1].relocations)
          /\ history_file.kind = "json"
          /\ history_file.metadata = relocation_history_state[1].metadata
    /\ (result.op = "archive" /\ result.outcome = "returned") =>
          /\ product_archive_state[1].metadata.total_items
                = Cardinality(DOMAIN product_archive_state[1].items)
          /\ archive_file.kind = "json"
          /\ archive_file.metadata = product_archive_state[1].metadata

\* an archive call has just saved an entry, and the history file holds every
\* relocation that was made
C16_Witness ==
    /\ result.op = "archive" /\ result.outcome = "returned"
    /\ Cardinality(DOMAIN product_archive_state[1].items) = 1
    /\ archive_file.kind = "json"
    /\ archive_file.metadata.total_items = 1
    /\ history_file.kind = "json"
    /\ history_file.metadata.total_relocations = MaxRelocations
    /\ Cardinality(DOMAIN history_file.relocations) = MaxRelocations

HistoryLoadRaised ==
    /\ relocation_history_state = None
    /\ result'.op \in HistoryOps /\ result'.outcome = "OSError"
    /\ relocation_history_state' # None
    /\ DOMAIN relocation_history_state'[1].relocations = {}

ArchiveLoadRaised ==
    /\ product_archive_state = None
    /\ result'.op \in ArchiveOps /\ result'.outcome = "OSError"
    /\ product_archive_state' # None
    /\ DOMAIN product_archive_state'[1].items = {}

\* the first use of a store in this process
HistoryFirstUse == relocation_history_state = None /\ relocation_history_state' # None
ArchiveFirstUse == product_archive_state = None /\ product_archive_state' # None

EmptyHistoryDocument ==
    [kind |-> "json", relocations |-> << >>,
     metadata |-> [total_relocations |-> 0, last_updated |-> <<[str |-> clock]>>,
                   version |-> "1.0"]]

EmptyArchiveDocument ==
    [kind |-> "json", items |-> << >>,
     metadata |-> [total_items |-> 0, last_updated |-> <<[str |-> clock]>>,
                   version |-> "1.0"]]

\* a query found the store empty and the file holds the empty aggregate
HistoryStartedEmpty ==
    /\ result'.op \in {"get_relocation_history", "get_relocation_stats"} =>
          /\ result'.outcome = "returned"
          /\ DOMAIN relocation_history_state'[1].relocations = {}
          /\ relocation_history_state'[1].metadata.total_relocations = 0
          /\ history_file' = EmptyHistoryDocument
    /\ \A k \in DOMAIN relocation_history_state'[1].relocations :
          \E p \in issued' \ issued : p[1] = k

ArchiveStartedEmpty ==
    /\ result'.op = "get_archive_stats" =>
          /\ result'.outcome = "returned"
          /\ DOMAIN product_archive_state'[1].items = {}
          /\ product_archive_state'[1].metadata.total_items = 0
          /\ archive_file' = EmptyArchiveDocument
    /\ Cardinality(DOMAIN product_archive_state'[1].items) <= 1

\* C18 as stated: loading a history or archive file that exists but cannot be
\* parsed never raises to the caller; it yields a fresh empty aggregate in
\* memory and overwrites the file with that empty aggregate.
C18_UnreadableFileNeverRaises ==
    [][/\ (HistoryFirstUse /\ history_file.kind = "corrupt") =>
            (~ HistoryLoadRaised /\ HistoryStartedEmpty)
       /\ (ArchiveFirstUse /\ archive_file.kind = "corrupt") =>
            (~ ArchiveLoadRaised /\ ArchiveStartedEmpty)]_vars

\* C18 as amended: loading a file that exists but cannot be parsed puts a
\* fresh empty aggregate in memory and tries to overwrite the file with it;
\* when that write succeeds the load does not raise and the file holds the
\* empty aggregate; when that write fails the I/O error is raised to the
\* caller, the empty aggregate stays in memory and the file stays unreadable.
C18_UnreadableFileReplacedOrWriteRaises ==
    [][/\ (HistoryFirstUse /\ history_file.kind = "corrupt") =>
            IF HistoryLoadRaised
            THEN /\ history_file'.kind = "corrupt"
                 /\ relocation_history_state'[1].metadata.total_relocations = 0
                 /\ UNCHANGED <<inventory, issued>>
            ELSE HistoryStartedEmpty
       /\ (ArchiveFirstUse /\ archive_file.kind = "corrupt") =>
            IF ArchiveLoadRaised
            THEN /\ archive_file'.kind = "corrupt"
                 /\ product_archive_state'[1].metadata.total_items = 0
            ELSE ArchiveStartedEmpty]_vars

\* a query was the first use of an unreadable history file and replaced it by
\* the empty aggregate; the archive file, not used yet, is still unreadable
C18_Witness ==
    /\ result.op = "get_relocation_stats" /\ result.outcome = "returned"
    /\ result.total_relocations = 0
    /\ process = 1 /\ issued = {}
    /\ history_file.kind = "json" /\ DOMAIN history_file.relocations = {}
    /\ product_archive_state = None
    /\ archive_file.kind = "corrupt"

\* a file that holds a valid aggregate: readable, its count equal to its size
ValidHistoryFile(file) ==
    /\ file.kind = "json"
    /\ file.metadata.total_relocations = Cardinality(DOMAIN file.relocations)

ValidArchiveFile(file) ==
    /\ file.kind = "json"
    /\ file.metadata.total_items = Cardinality(DOMAIN file.items)

----------------------------------------------------------------------------
(* Durability on return *)

\* the history file holds exactly the records the process holds in memory
HistoryOnDisk ==
    /\ relocation_history_state # None
    /\ history_file.kind = "json"
    /\ FileKeysOf(history_file.relocations)
          = DOMAIN relocation_history_state[1].relocations
    /\ \A n \in DOMAIN relocation_history_state[1].relocations :
          history_file.relocations[[str |-> n]]
            = [relocation_history_state[1].relocations[n] EXCEPT
                  !.relocated_at = [str |-> @.dt]]

\* the archive file holds exactly the entries the process holds in memory
ArchiveOnDisk ==
    /\ product_archive_state # None
    /\ archive_file.kind = "json"
    /\ FileKeysOf(archive_file.items) = DOMAIN product_archive_state[1].items
    /\ \A n \in DOMAIN product_archive_state[1].items :
          archive_file.items[[str |-> n]]
            = [product_archive_state[1].items[n] EXCEPT
                  !.dispensed_at = [str |-> @.dt]]

\* C21: whenever relocate_item or archive_dispensed_item has returned normally,
\* the file on disk holds exactly the records of the in-memory aggregate, the
\* record of that call among them.
C21_ReturnedMeansOnDisk ==
    /\ (result.op = "relocate" /\ result.outcome = "returned") =>
          /\ HistoryOnDisk
          /\ \E n \in DOMAIN relocation_history_state[1].relocations :
                /\ history_file.relocations[[str |-> n]].item_id = result.item_id
                /\ history_file.relocations[[str |-> n]].new_vsu_id = result.new_vsu_id
                /\ history_file.relocations[[str |-> n]].relocated_at
                      = result.relocated_at
                /\ n = next_relocation_id - 1
    /\ (result.op = "archive" /\ result.outcome = "returned") =>
          /\ ArchiveOnDisk
          /\ result.item_id \in FileKeysOf(archive_file.items)
          /\ archive_file.items[[str |-> result.item_id]].vsu_id
                = items[result.item_id].vsu_id[1]

\* an archive call has returned after a relocation whose save had failed: the
\* archive file holds the entry, with the slot the item was moved to
C21_Witness ==
    /\ result.op = "archive" /\ result.outcome = "returned"
    /\ ArchiveOnDisk
    /\ archive_file.items[[str |-> result.item_id]].vsu_id # 1
    /\ relocation_history_state # None
    /\ DOMAIN relocation_history_state[1].relocations # {}
    /\ history_file.kind # "json"

----------------------------------------------------------------------------
(* Properties of the archive over several processes *)

\* the entries as the process knows them: those in memory, or, before the first
\* use, those the first use will load
KnownArchiveOf(state, file) ==
    IF state # None THEN state[1].items
    ELSE IF file.kind = "json" THEN ParsedArchiveItems(file)
    ELSE << >>

\* a step in which archive_dispensed_item got as far as storing its entry
ArchiveStoredStep == result'.op = "archive" /\ ~ ArchiveLoadRaised

\* the entry is the snapshot of item i as the inventory holds it now
SnapshotOf(entry, i) ==
    /\ entry.item_id = i
    /\ entry.product_id = items[i].product_id
    /\ entry.barcode = items[i].barcode
    /\ entry.vsu_id = items[i].vsu_id[1]
    /\ entry.vsu_code = virtual_units[items[i].vsu_id[1]].code
    /\ entry.shelf_id = virtual_units[items[i].vsu_id[1]].shelf_id
    /\ entry.stock_index = items[i].stock_index
    /\ entry.dispensed_at = [dt |-> clock]

\* C22: archive_dispensed_item stores the new snapshot under the key item_id,
\* replacing any entry already there, and leaves every other entry as it was;
\* the archive grows by one when the id was not archived before and keeps its
\* size otherwise.
C22_ArchiveStoresUnderItemId ==
    [][ArchiveStoredStep =>
        LET before == KnownArchiveOf(product_archive_state, archive_file)
            after == product_archive_state'[1].items
        IN  \E i \in DOMAIN items :
              /\ i \in DOMAIN after
              /\ SnapshotOf(after[i], i)
              /\ DOMAIN after = DOMAIN before \cup {i}
              /\ \A j \in DOMAIN before \ {i} : after[j] = before[j]
              /\ Cardinality(DOMAIN after)
                    = Cardinality(DOMAIN before) + (IF i \in DOMAIN before THEN 0 ELSE 1)]_vars

\* an item was archived, moved and archived again, and the second save could
\* not open the file: memory holds the new snapshot in place of the one the
\* file still holds, next to another item's entry that is the same in both
C22_Witness ==
    /\ result = [op |-> "archive", outcome |-> "OSError"]
    /\ product_archive_state # None
    /\ archive_file.kind = "json"
    /\ \E i, j \in DOMAIN product_archive_state[1].items :
          /\ i # j
          /\ FileKeysOf(archive_file.items) = {i, j}
          /\ DOMAIN product_archive_state[1].items = {i, j}
          /\ archive_file.items[[str |-> i]].vsu_id = 1
          /\ product_archive_state[1].items[i].vsu_id # 1
          /\ SnapshotOf(product_archive_state[1].items[i], i)
          /\ archive_file.items[[str |-> j]].dispensed_at.str
                = product_archive_state[1].items[j].dispensed_at.dt

\* C23: an ArchivedItem is never mutated or deleted: once the archive holds an
\* entry for an item id, every later state (after further archive calls, saves,
\* restarts and loads) holds the identical entry for that id.
C23_ArchivedEntryNeverChanges ==
    [][LET before == KnownArchiveOf(product_archive_state, archive_file)
           after == KnownArchiveOf(product_archive_state', archive_file')
       IN  \A i \in DOMAIN before : i \in DOMAIN after /\ after[i] = before[i]]_vars

----------------------------------------------------------------------------
(* The records of the relocation history *)

\* the step added exactly one record, that of the move it made
OneRecordOfTheMove(before, after, outcome) ==
    \E n \in DOMAIN after \ DOMAIN before :
    \E i \in DOMAIN items :
        /\ DOMAIN after = DOMAIN before \cup {n}
        /\ after[n].item_id = i
        /\ items[i].vsu_id = <<after[n].original_vsu_id>>
        /\ items'[i].vsu_id = <<after[n].new_vsu_id>>
        /\ after[n].original_vsu_id # after[n].new_vsu_id
        /\ after[n].reason \in Reasons
        /\ outcome = "returned" =>
              /\ result'.item_id = i
              /\ result'.original_vsu_id = after[n].original_vsu_id
              /\ result'.new_vsu_id = after[n].new_vsu_id
              /\ result'.reason = after[n].reason

\* C24 as stated: each successful relocate adds exactly one record, with the
\* item id, origin, destination and reason of the move; a failed relocate adds
\* none; records already in the history are not changed or removed.
C24_SuccessAddsOneFailureNone ==
    [][result'.op = "relocate" =>
        LET before == KnownRelocationsOf(relocation_history_state, history_file)
            after == relocation_history_state'[1].relocations
        IN  /\ \A n \in DOMAIN before : n \in DOMAIN after /\ after[n] = before[n]
            /\ IF result'.outcome = "returned"
               THEN OneRecordOfTheMove(before, after, "returned")
               ELSE DOMAIN after = DOMAIN before]_vars

\* C24 as amended: each relocate that returns adds exactly one record, with the
\* item id, origin, destination and reason of the move, and so does a relocate
\* that made the move and then failed in its save, in memory and not in the
\* file; a relocate that fails with an HTTP status or in the write of its
\* first load adds none and moves nothing;
\* records already in the history are not changed or removed.
C24_MoveAddsOneRefusalNone ==
    [][result'.op = "relocate" =>
        LET before == KnownRelocationsOf(relocation_history_state, history_file)
            after == relocation_history_state'[1].relocations
        IN  /\ \A n \in DOMAIN before : n \in DOMAIN after /\ after[n] = before[n]
            /\ CASE result'.outcome = "returned" ->
                      OneRecordOfTheMove(before, after, "returned")
                 [] result'.outcome = "HTTPException" ->
                      DOMAIN after = DOMAIN before /\ items' = items
                 [] OTHER ->
                      \/ DOMAIN after = DOMAIN before /\ items' = items
                      \/ /\ OneRecordOfTheMove(before, after, "OSError")
                         /\ history_file'.kind = "json" =>
                               FileKeysOf(history_file'.relocations)
                                   \subseteq DOMAIN before]_vars

\* a second process has loaded a record made for one reason and added a record
\* made for the other
C24_Witness ==
    /\ result.op = "relocate" /\ result.outcome = "returned"
    /\ process = 2
    /\ issued = {<<1, 1, 1>>, <<2, 2, 2>>}
    /\ DOMAIN relocation_history_state[1].relocations = {1, 2}
    /\ relocation_history_state[1].relocations[1].reason = "manual"
    /\ relocation_history_state[1].relocations[2].reason = "obstruction_removal"
    /\ relocation_history_state[1].relocations[2].item_id = result.item_id

\* C25: archive_dispensed_item changes only the archive aggregate: the items
\* mapping, every item's vsu_id and stock_index, every VSU's occupant list and
\* occupied flag, and the relocation history (records, next id, file) are
\* after the call what they were before it.
C25_ArchiveLeavesInventoryAndHistory ==
    [][result'.op = "archive" =>
        /\ DOMAIN items' = DOMAIN items
        /\ \A i \in DOMAIN items :
              /\ items'[i].vsu_id = items[i].vsu_id
              /\ items'[i].stock_index = items[i].stock_index
              /\ items'[i] = items[i]
        /\ \A v \in DOMAIN virtual_units :
              /\ virtual_units'[v].items = virtual_units[v].items
              /\ virtual_units'[v].occupied = virtual_units[v].occupied
        /\ virtual_units' = virtual_units
        /\ shelves' = shelves
        /\ relocation_history_state' = relocation_history_state
        /\ next_relocation_id' = next_relocation_id
        /\ history_file' = history_file]_vars

\* an item that a relocation moved has been archived: it is still in the
\* inventory, in the slot it was moved to, and the history still holds the
\* record of the move
C25_Witness ==
    /\ result.op = "archive" /\ result.outcome = "returned"
    /\ result.item_id \in DOMAIN items
    /\ items[result.item_id].vsu_id # None
    /\ items[result.item_id].vsu_id # Some(1)
    /\ result.item_id \in Range(virtual_units[items[result.item_id].vsu_id[1]].items)
    /\ relocation_history_state # None
    /\ \E n \in DOMAIN relocation_history_state[1].relocations :
          relocation_history_state[1].relocations[n].item_id = result.item_id
    /\ product_archive_state[1].items[result.item_id].vsu_id
          = items[result.item_id].vsu_id[1]

\* the sum of the count fields of the rows under the given keys
RECURSIVE SumOfCounts(_, _)
SumOfCounts(rows, keys) ==
    IF keys = {} THEN 0
    ELSE LET k == CHOOSE x \in keys : TRUE
         IN  rows[k].count + SumOfCounts(rows, keys \ {k})

\* C26: get_archive_stats only reads the archive: total_items is the number of
\* entries, total_products the number of distinct product ids among them,
\* there is one product row per distinct product id carrying the number of
\* entries of that product, the counts add up to total_items, and no archive
\* entry is changed by the call.
C26_ArchiveStatsCountsAndReadsOnly ==
    [][result'.op = "get_archive_stats" =>
        LET before == KnownArchiveOf(product_archive_state, archive_file)
            after == product_archive_state'[1].items
            product_ids == {after[i].product_id : i \in DOMAIN after}
        IN  /\ after = before
            /\ archive_file.kind = "json" => archive_file' = archive_file
            /\ archive_file'.kind = "json" =>
                  FileKeysOf(archive_file'.items) \subseteq DOMAIN before
            /\ result'.outcome = "returned" =>
                  /\ result'.total_items = Cardinality(DOMAIN after)
                  /\ result'.total_products = Cardinality(product_ids)
                  /\ DOMAIN result'.products = product_ids
                  /\ \A p \in product_ids :
                        /\ result'.products[p].product_id = p
                        /\ result'.products[p].count
                              = Cardinality({i \in DOMAIN after : after[i].product_id = p})
                  /\ SumOfCounts(result'.products, product_ids) = result'.total_items]_vars

\* a second process has counted two archived items of one product
C26_Witness ==
    /\ result.op = "get_archive_stats" /\ result.outcome = "returned"
    /\ process = 2
    /\ result.total_items = 2
    /\ result.total_products = 1
    /\ \E p \in DOMAIN result.products : result.products[p].count = 2
    /\ Cardinality(DOMAIN product_archive_state[1].items) = 2

\* C27: get_relocation_history returns one entry per record of the history,
\* carrying the record's relocation id and fields, ordered by relocated_at
\* descending; get_relocation_stats returns total_relocations equal to the
\* number of records.
C27_ListingLatestFirstAndTotal ==
    /\ (result.op = "get_relocation_history" /\ result.outcome = "returned") =>
          LET records == result.records
              relocations == relocation_history_state[1].relocations
          IN  /\ Len(records) = Cardinality(DOMAIN relocations)
              /\ {records[k].relocation_id : k \in 1..Len(records)} = DOMAIN relocations
              /\ \A k \in 1..Len(records) :
                    LET record == relocations[records[k].relocation_id]
                    IN  /\ records[k].item_id = record.item_id
                        /\ records[k].original_vsu_id = record.original_vsu_id
                        /\ records[k].new_vsu_id = record.new_vsu_id
                        /\ records[k].reason = record.reason
                        /\ records[k].relocated_at = [str |-> record.relocated_at.dt]
              /\ \A j, k \in 1..Len(records) :
                    j < k => records[j].relocated_at.str >= records[k].relocated_at.str
    /\ (result.op = "get_relocation_stats" /\ result.outcome = "returned") =>
          result.total_relocations
              = Cardinality(DOMAIN relocation_history_state[1].relocations)

\* the listing of a history of two relocations starts with the later one
C27_Witness ==
    /\ result.op = "get_relocation_history" /\ result.outcome = "returned"
    /\ Len(result.records) = 2
    /\ result.records[1].relocation_id = 2
    /\ result.records[2].relocation_id = 1
    /\ result.records[1].relocated_at.str > result.records[2].relocated_at.str

----------------------------------------------------------------------------
(* The slots themselves *)

----------------------------------------------------------------------------
(* Two relocate_item calls at once *)

\* caller c's call goes from one block of statements to the next
Advances(c, from, to) == calls[c].pc = from /\ calls'[c].pc = to

\* both callers have returned from a relocation of their own item
BothRelocated ==
    /\ \A c \in Callers : calls[c].pc = "done" /\ calls[c].outcome = "returned"
    /\ calls["a"].item_id # calls["b"].item_id

\* C29: nothing keeps two relocate calls for different items apart: a call
\* selects a slot that is empty and fits when it searches, later appends its
\* item to that slot whatever the slot holds by then, and takes as stock index
\* the last position of the list as it is when it reads it; so two calls that
\* both search before either places can select one empty slot and leave two
\* items in it, with a stock index that is not the item's position.
C29_SlotSelectedEmptyFilledUnchecked ==
    [][\A c \in Callers :
        LET item_id == calls'[c].item_id
            new_vsu_id == calls'[c].new_vsu_id
        IN  /\ Advances(c, "idle", "found") =>
                  /\ virtual_units[new_vsu_id].items = <<>>
                  /\ items[item_id].width <= virtual_units[new_vsu_id].width
                  /\ items[item_id].vsu_id = <<calls'[c].original_vsu_id>>
                  /\ new_vsu_id # calls'[c].original_vsu_id
                  /\ UNCHANGED inventory
            /\ Advances(c, "found", "placed") =>
                  /\ virtual_units'[new_vsu_id].items
                        = Append(virtual_units[new_vsu_id].items, item_id)
                  /\ virtual_units'[new_vsu_id].occupied
                  /\ items' = items
            /\ Advances(c, "placed", "indexed") =>
                  /\ items'[item_id].vsu_id = <<new_vsu_id>>
                  /\ items'[item_id].stock_index
                        = Len(virtual_units[new_vsu_id].items) - 1
                  /\ virtual_units' = virtual_units]_vars

\* both calls have returned, having moved different items into one slot that
\* each had found empty; the item that arrived first carries the stock index
\* of the second place
C29_Witness ==
    /\ BothRelocated
    /\ calls["a"].new_vsu_id = calls["b"].new_vsu_id
    /\ LET slot == virtual_units[calls["a"].new_vsu_id]
       IN  /\ Len(slot.items) = 2
           /\ Range(slot.items) = {calls["a"].item_id, calls["b"].item_id}
           /\ slot.occupied
           /\ \A i \in Range(slot.items) : items[i].vsu_id = <<slot.id>>
           /\ items[slot.items[1]].stock_index = 1
           /\ items[slot.items[2]].stock_index = 1

\* C30: nothing keeps two relocate calls apart between the store of the record
\* and the increment: a call stores its record under the id that
\* next_relocation_id holds at that moment, replacing a record already there,
\* and raises the counter by one in a later statement; so the history holds
\* one record per id handed out, which is fewer than the relocations made
\* when two calls read the same id.
C30_RecordStoredUnderCurrentId ==
    [][/\ \A c \in Callers :
            /\ Advances(c, "indexed", "stored") =>
                  LET before == relocation_history_state[1].relocations
                      after == relocation_history_state'[1].relocations
                  IN  /\ next_relocation_id' = next_relocation_id
                      /\ calls'[c].relocation_id = next_relocation_id
                      /\ DOMAIN after = DOMAIN before \cup {next_relocation_id}
                      /\ after[next_relocation_id].item_id = calls[c].item_id
                      /\ after[next_relocation_id].relocated_at = [dt |-> clock]
                      /\ \A n \in DOMAIN before \ {next_relocation_id} :
                            after[n] = before[n]
                      /\ Cardinality(issued') = Cardinality(issued) + 1
            /\ Advances(c, "stored", "counted") =>
                  /\ next_relocation_id' = next_relocation_id + 1
                  /\ relocation_history_state' = relocation_history_state
       /\ relocation_history_state' # None =>
            /\ DOMAIN relocation_history_state'[1].relocations
                  = {p[1] : p \in issued'}
            /\ Cardinality(DOMAIN relocation_history_state'[1].relocations)
                  <= Cardinality(issued')]_vars

\* both calls have returned, having moved different items and stored their
\* records under id 1: the history, in memory and in the file, holds one record
\* for two relocations, and the next id is 3
C30_Witness ==
    /\ BothRelocated
    /\ calls["a"].relocation_id = 1
    /\ calls["b"].relocation_id = 1
    /\ Cardinality(issued) = 2
    /\ DOMAIN relocation_history_state[1].relocations = {1}
    /\ next_relocation_id = 3
    /\ history_file.kind = "json"
    /\ FileKeysOf(history_file.relocations) = {1}
    /\ history_file.metadata.total_relocations = 1
    /\ \A c \in Callers : items[calls[c].item_id].vsu_id = <<calls[c].new_vsu_id>>

----------------------------------------------------------------------------
(* Serial relocations: indices, destinations, ids and the file *)

\* C31: starting from an inventory where every item's stock_index is its
\* position in its home VSU's occupant list, after any sequence of serial
\* successful relocations every placed item is listed in its home VSU and its
\* stock_index is its position there, the items left behind in an origin
\* included.
C31_StockIndexIsPositionEverywhere ==
    \A i \in DOMAIN items :
        items[i].vsu_id # None =>
            LET occupants == virtual_units[items[i].vsu_id[1]].items
            IN  /\ i \in Range(occupants)
                /\ items[i].stock_index = IndexIn(occupants, i)

\* C32: for an item that is listed in the occupant list of its current VSU, the
\* destination of a successful relocate is never that VSU: new_vsu_id differs
\* from original_vsu_id in the result and in the relocation record, and
\* original_vsu_id is the VSU the item was in.
C32_DestinationIsNotTheOrigin ==
    [][MovedStep =>
        LET i == result'.item_id
            record == relocation_history_state'[1].relocations[next_relocation_id' - 1]
        IN  i \in Range(virtual_units[items[i].vsu_id[1]].items) =>
              /\ result'.original_vsu_id = items[i].vsu_id[1]
              /\ result'.new_vsu_id # result'.original_vsu_id
              /\ record.item_id = i
              /\ record.original_vsu_id = result'.original_vsu_id
              /\ record.new_vsu_id = result'.new_vsu_id
              /\ record.new_vsu_id # record.original_vsu_id
              /\ items'[i].vsu_id # items[i].vsu_id]_vars

\* an item has been moved out of a slot it shared: the slot it left still holds
\* the other item, and the record names two different slots
C32_Witness ==
    /\ Moved
    /\ result.new_vsu_id # result.original_vsu_id
    /\ virtual_units[result.original_vsu_id].items # <<>>
    /\ result.item_id \notin Range(virtual_units[result.original_vsu_id].items)
    /\ result.item_id \in Range(virtual_units[result.new_vsu_id].items)
    /\ relocation_history_state[1].relocations[next_relocation_id - 1].original_vsu_id
          = result.original_vsu_id
    /\ relocation_history_state[1].relocations[next_relocation_id - 1].new_vsu_id
          = result.new_vsu_id

\* C33: after a successful serial relocate the destination VSU's occupant list
\* holds the relocated item and nothing else, so the stock_index the item gets
\* and the one returned are 0.
C33_DestinationHoldsOnlyTheItem ==
    Moved =>
        /\ virtual_units[result.new_vsu_id].items = <<result.item_id>>
        /\ virtual_units[result.new_vsu_id].occupied
        /\ items[result.item_id].vsu_id = <<result.new_vsu_id>>
        /\ items[result.item_id].stock_index = 0
        /\ result.stock_index = 0

\* the second relocation has brought an item into a home slot that the first
\* relocation had emptied
C33_Witness ==
    /\ Moved
    /\ next_relocation_id = 3
    /\ result.new_vsu_id \in HomeSlots
    /\ result.original_vsu_id \in HomeSlots
    /\ virtual_units[result.new_vsu_id].items = <<result.item_id>>
    /\ result.stock_index = 0
    /\ \E n \in DOMAIN relocation_history_state[1].relocations :
          relocation_history_state[1].relocations[n].original_vsu_id
              = result.new_vsu_id

\* C34: in every state reached by the serial operations of a process (the load,
\* the fallback for an unreadable file, relocations that returned and
\* relocations whose save failed), next_relocation_id is greater than every
\* key of the in-memory history, so a relocation that stores its record leaves
\* every record held in memory as it was.
C34_NextIdAboveEveryKey ==
    [][/\ relocation_history_state' # None =>
            \A k \in DOMAIN relocation_history_state'[1].relocations :
                k < next_relocation_id'
       /\ (relocation_history_state # None /\ issued' # issued) =>
            LET before == relocation_history_state[1].relocations
                after == relocation_history_state'[1].relocations
            IN  /\ next_relocation_id \notin DOMAIN before
                /\ next_relocation_id \in DOMAIN after
                /\ \A k \in DOMAIN before : k \in DOMAIN after /\ after[k] = before[k]]_vars

\* a second process has loaded the record the first one saved and has added a
\* record whose save failed: memory holds ids 1 and 2 and the next id is 3
C34_Witness ==
    /\ result = [op |-> "relocate", outcome |-> "OSError"]
    /\ process = 2
    /\ issued = {<<1, 1, 1>>, <<2, 2, 2>>}
    /\ relocation_history_state # None
    /\ DOMAIN relocation_history_state[1].relocations = {1, 2}
    /\ next_relocation_id = 3

\* the step is a relocate call refused with status 404, 400 or 503
RefusedStep ==
    \E status \in {404, 400, 503} :
        result' = [op |-> "relocate", outcome |-> "HTTPException", status |-> status]

\* C35 as stated: a relocate call that fails with 404, 400 or 503 performs no
\* write to the relocation-history file, also when it is the first use of the
\* history in the process.
C35_RefusedCallWritesNothing ==
    [][RefusedStep => history_file' = history_file]_vars

\* C35 as amended: a relocate call that fails with 404, 400 or 503 leaves the
\* relocation-history file as it is, except when it is the first use of the
\* history in the process and the file is missing or unreadable: the load then
\* writes the file of a fresh empty history before the call is refused.
C35_RefusedCallWritesOnlyFreshFile ==
    [][RefusedStep =>
        /\ IF relocation_history_state = None /\ history_file.kind # "json"
           THEN history_file' = EmptyHistoryDocument
           ELSE history_file' = history_file
        /\ issued' = issued
        /\ UNCHANGED inventory]_vars

\* the calls made so far have moved nothing, the last one was refused for an
\* unknown item id, and the history file exists, written by the first load
C35_Witness ==
    /\ result = [op |-> "relocate", outcome |-> "HTTPException", status |-> 404]
    /\ issued = {}
    /\ clock = 1
    /\ relocation_history_state # None
    /\ history_file.kind = "json"
    /\ DOMAIN history_file.relocations = {}
    /\ history_file.metadata.total_relocations = 0

============================================================================
